---- MODULE Spec2Model ----
(***************************************************************************)
(* The multiplexed trivia server (src/trivia_server.py) and the protocol   *)
(* codec it is built on (src/src/chatlib.py), as a state machine.          *)
(*                                                                         *)
(* A Python str is a sequence of one-character strings, so that splitting, *)
(* padding, joining and parsing are computed the way the code computes     *)
(* them.  A Python dict is a sequence of [k, v] pairs in insertion order.  *)
(* Python objects handed to _build_and_append_message are tagged with      *)
(* their type, because the code tests it with isinstance.                  *)
(***************************************************************************)
EXTENDS Integers, Sequences, FiniteSets, TLC

(***************************************************************************)
(* Bounds of the model.                                                    *)
(***************************************************************************)
\* number of connections the listening socket hands out in one run
MaxSockets == 2
\* number of distinct peer addresses (ip, port) connections come from
MaxAddrs == 2
\* the readiness wait stops reporting readers once this many entries wait
MaxQueue == 2
\* the same for BacklogSpec, whose requests are fewer
MaxBacklog == 3
\* number of correct answers given in one run
MaxCorrect == 1
\* number of correct answers given in one run of ScoreSpec
MaxScored == 3
\* number of words _join_data is given in CodecSpec
MaxWords == 3
\* largest expected_fields _split_data is given in CodecSpec
MaxFields == 3

(***************************************************************************)
(* chatlib constants                                                       *)
(***************************************************************************)
DATA_DELIMETER == "#"
FIELDS_DELIMETER == "|"
CMD_SUFFIX_CHAR == " "
CMD_FIELD_LENGTH == 16
LEN_FIELD_LENGTH == 4
CMD_FIELD_MAX_LENGTH == 16
DATA_FIELD_MAX_LENGTH == 9999
MESSAGE_PARTS == 3
LOGGED_USERS_DELIMETER == ","
\* None, as a value no str is equal to
CHATLIB_ERROR_RETURN == <<"None">>
\* None where the code expects a list of str
CHATLIB_ERROR_LIST == <<CHATLIB_ERROR_RETURN>>

\* Python truth value of an Optional[str] and of an Optional[list]
StrTruthy(s) == s # CHATLIB_ERROR_RETURN /\ Len(s) > 0

ListTruthy(l) == l # CHATLIB_ERROR_LIST /\ Len(l) > 0

(***************************************************************************)
(* Python dict: pairs [k, v] in insertion order, keys unique               *)
(***************************************************************************)
DictHas(d, key) == \E i \in 1..Len(d) : d[i].k = key

DictGet(d, key) == d[CHOOSE i \in 1..Len(d) : d[i].k = key].v

DictPut(d, key, val) ==
    IF DictHas(d, key)
    THEN [i \in 1..Len(d) |-> IF d[i].k = key THEN [k |-> key, v |-> val] ELSE d[i]]
    ELSE Append(d, [k |-> key, v |-> val])

DictDel(d, key) == SelectSeq(d, LAMBDA e : e.k # key)

DictKeys(d) == [i \in 1..Len(d) |-> d[i].k]

DictValues(d) == [i \in 1..Len(d) |-> d[i].v]

PROTOCOL_CLIENT ==
    << [k |-> <<"l", "o", "g", "i", "n">>, v |-> <<"L", "O", "G", "I", "N">>],
       [k |-> <<"l", "o", "g", "o", "u", "t">>, v |-> <<"L", "O", "G", "O", "U", "T">>],
       [k |-> <<"g", "e", "t", "_", "s", "c", "o", "r", "e">>, v |-> <<"M", "Y", "_", "S", "C", "O", "R", "E">>],
       [k |-> <<"g", "e", "t", "_", "h", "i", "g", "h", "s", "c", "o", "r", "e">>, v |-> <<"H", "I", "G", "H", "S", "C", "O", "R", "E">>],
       [k |-> <<"g", "e", "t", "_", "q", "u", "e", "s", "t", "i", "o", "n">>, v |-> <<"G", "E", "T", "_", "Q", "U", "E", "S", "T", "I", "O", "N">>],
       [k |-> <<"s", "e", "n", "d", "_", "a", "n", "s", "w", "e", "r">>, v |-> <<"S", "E", "N", "D", "_", "A", "N", "S", "W", "E", "R">>],
       [k |-> <<"g", "e", "t", "_", "l", "o", "g", "g", "e", "d", "_", "u", "s", "e", "r", "s">>, v |-> <<"L", "O", "G", "G", "E", "D">>] >>

PROTOCOL_SERVER_OK ==
    << [k |-> <<"l", "o", "g", "i", "n">>, v |-> <<"L", "O", "G", "I", "N", "_", "O", "K">>],
       [k |-> <<"g", "e", "t", "_", "s", "c", "o", "r", "e">>, v |-> <<"Y", "O", "U", "R", "_", "S", "C", "O", "R", "E">>],
       [k |-> <<"g", "e", "t", "_", "h", "i", "g", "h", "s", "c", "o", "r", "e">>, v |-> <<"A", "L", "L", "_", "S", "C", "O", "R", "E">>],
       [k |-> <<"g", "e", "t", "_", "q", "u", "e", "s", "t", "i", "o", "n">>, v |-> <<"Y", "O", "U", "R", "_", "Q", "U", "E", "S", "T", "I", "O", "N">>],
       [k |-> <<"s", "e", "n", "d", "_", "a", "n", "s", "w", "e", "r", "_", "c", "o", "r", "r", "e", "c", "t">>, v |-> <<"C", "O", "R", "R", "E", "C", "T", "_", "A", "N", "S", "W", "E", "R">>],
       [k |-> <<"s", "e", "n", "d", "_", "a", "n", "s", "w", "e", "r", "_", "w", "r", "o", "n", "g">>, v |-> <<"W", "R", "O", "N", "G", "_", "A", "N", "S", "W", "E", "R">>],
       [k |-> <<"g", "e", "t", "_", "l", "o", "g", "g", "e", "d", "_", "u", "s", "e", "r", "s">>, v |-> <<"L", "O", "G", "G", "E", "D", "_", "A", "N", "S", "W", "E", "R">>] >>

PROTOCOL_SERVER_ERROR == <<"E", "R", "R", "O", "R">>

(***************************************************************************)
(* trivia_server constants                                                 *)
(***************************************************************************)
NUMBER_OF_ANSWERS == 4
HIGHSCORE_TABLE_SIZE == 3
CORRECT_ANSWER_SCORE == 5
UNKNOWN_ERROR_OCCURRED == <<"E", "R", "R", "O", "R", ":", " ", "A", "n", " ", "u", "n", "k", "n", "o", "w", "n", " ", "e", "r", "r", "o", "r", " ", "o", "c", "c", "u", "r", "e", "d", ".">>
ERROR_USERNAME_DOES_NOT_EXIST == <<"E", "r", "r", "o", "r", ":", " ", "U", "s", "e", "r", "n", "a", "m", "e", " ", "d", "o", "e", "s", " ", "n", "o", "t", " ", "e", "x", "i", "s", "t", "!">>
ERROR_PASSWORD_DOES_NOT_MATCH == <<"E", "r", "r", "o", "r", ":", " ", "P", "a", "s", "s", "w", "o", "r", "d", " ", "d", "o", "e", "s", " ", "n", "o", "t", " ", "m", "a", "t", "c", "h", "!">>
ERROR_INVALID_ANSWER == <<"E", "r", "r", "o", "r", ":", " ", "I", "n", "v", "a", "l", "i", "d", " ", "a", "n", "s", "w", "e", "r", "!", " ", "M", "u", "s", "t", " ", "b", "e", " ", "a", " ", "n", "u", "m", "b", "e", "r", " ", "b", "e", "t", "w", "e", "e", "n", " ", "1", "-", "4", ".">>

(***************************************************************************)
(* Python str operations                                                   *)
(***************************************************************************)
Digits == <<"0", "1", "2", "3", "4", "5", "6", "7", "8", "9">>

IsDigit(c) == \E i \in 1..10 : Digits[i] = c

DigitVal(c) == (CHOOSE i \in 1..10 : Digits[i] = c) - 1

IsSpace(c) == c \in {" ", "\n", "\t", "\r"}

\* str.split(sep) for a one-character sep: always at least one part
RECURSIVE StrSplit(_, _)
StrSplit(s, sep) ==
    IF \A i \in 1..Len(s) : s[i] # sep
    THEN <<s>>
    ELSE LET i == CHOOSE j \in 1..Len(s) :
                      s[j] = sep /\ \A k \in 1..(j - 1) : s[k] # sep
         IN  <<SubSeq(s, 1, i - 1)>> \o StrSplit(SubSeq(s, i + 1, Len(s)), sep)

\* sep.join(words)
RECURSIVE StrJoin(_, _)
StrJoin(sep, words) ==
    IF Len(words) = 0 THEN <<>>
    ELSE IF Len(words) = 1 THEN words[1]
    ELSE words[1] \o sep \o StrJoin(sep, Tail(words))

\* s.ljust(width, fillchar)
StrLjust(s, width, fillchar) ==
    IF Len(s) >= width THEN s
    ELSE s \o [i \in 1..(width - Len(s)) |-> fillchar]

\* s.zfill(width), for a string without a sign
StrZfill(s, width) ==
    IF Len(s) >= width THEN s
    ELSE [i \in 1..(width - Len(s)) |-> "0"] \o s

\* s.strip()
RECURSIVE StrStrip(_)
StrStrip(s) ==
    IF Len(s) = 0 THEN s
    ELSE IF IsSpace(s[1]) THEN StrStrip(Tail(s))
    ELSE IF IsSpace(s[Len(s)]) THEN StrStrip(SubSeq(s, 1, Len(s) - 1))
    ELSE s

\* str(n) for an int
RECURSIVE PyStr(_)
PyStr(n) ==
    IF n < 0 THEN <<"-">> \o PyStr(0 - n)
    ELSE IF n < 10 THEN <<Digits[n + 1]>>
    ELSE PyStr(n \div 10) \o <<Digits[(n % 10) + 1]>>

RECURSIVE DigitsVal(_)
DigitsVal(s) ==
    IF Len(s) = 0 THEN 0
    ELSE 10 * DigitsVal(SubSeq(s, 1, Len(s) - 1)) + DigitVal(s[Len(s)])

\* int(s): surrounding whitespace, one sign and single underscores between
\* digits are accepted; anything else is a ValueError (ok = FALSE)
PyInt(s) ==
    LET t == StrStrip(s)
        signed == Len(t) > 0 /\ t[1] \in {"+", "-"}
        d == IF signed THEN Tail(t) ELSE t
        wellformed ==
            /\ Len(d) > 0
            /\ \A i \in 1..Len(d) : IsDigit(d[i]) \/ d[i] = "_"
            /\ d[1] # "_"
            /\ d[Len(d)] # "_"
            /\ \A i \in 1..(Len(d) - 1) : d[i] = "_" => d[i + 1] # "_"
        magnitude == DigitsVal(SelectSeq(d, IsDigit))
    IN  IF wellformed
        THEN [ok |-> TRUE,
              val |-> IF signed /\ t[1] = "-" THEN 0 - magnitude ELSE magnitude]
        ELSE [ok |-> FALSE, val |-> 0]

(***************************************************************************)
(* chatlib.ProtocolUser                                                    *)
(***************************************************************************)
\* a split that hands the tokens back whatever their number
_split_data_uncounted(data, expected_fields) == StrSplit(data, DATA_DELIMETER)

_split_data(data, expected_fields) ==
    LET data_list == StrSplit(data, DATA_DELIMETER)
    IN  IF Len(data_list) # expected_fields
        THEN CHATLIB_ERROR_LIST
        ELSE data_list

_join_data(words) == StrJoin(<<DATA_DELIMETER>>, words)

\* an encoder that writes the length without padding it
_build_message_unpadded(cmd, msg) ==
    IF Len(cmd) > CMD_FIELD_MAX_LENGTH \/ Len(msg) > DATA_FIELD_MAX_LENGTH
    THEN CHATLIB_ERROR_RETURN
    ELSE StrJoin(<<FIELDS_DELIMETER>>,
                 <<StrLjust(cmd, CMD_FIELD_LENGTH, CMD_SUFFIX_CHAR),
                   PyStr(Len(msg)), msg>>)

_build_message(cmd, msg) ==
    IF Len(cmd) > CMD_FIELD_MAX_LENGTH \/ Len(msg) > DATA_FIELD_MAX_LENGTH
    THEN CHATLIB_ERROR_RETURN
    ELSE LET cmd_field == StrLjust(cmd, CMD_FIELD_LENGTH, CMD_SUFFIX_CHAR)
             data_len_field == StrZfill(PyStr(Len(msg)), LEN_FIELD_LENGTH)
             data_field == msg
         IN  StrJoin(<<FIELDS_DELIMETER>>,
                     <<cmd_field, data_len_field, data_field>>)

\* a decoder that trusts the declared length
_parse_message_unmeasured(msg) ==
    LET failure == [cmd |-> CHATLIB_ERROR_RETURN, msg |-> CHATLIB_ERROR_RETURN]
        msg_parts == StrSplit(msg, FIELDS_DELIMETER)
    IN  IF Len(msg_parts) # MESSAGE_PARTS THEN failure
        ELSE IF Len(msg_parts[1]) # CMD_FIELD_LENGTH THEN failure
        ELSE IF ~PyInt(msg_parts[2]).ok THEN failure
        ELSE IF ~(0 <= PyInt(msg_parts[2]).val
                  /\ PyInt(msg_parts[2]).val < DATA_FIELD_MAX_LENGTH)
             THEN failure
        ELSE [cmd |-> StrStrip(msg_parts[1]), msg |-> msg_parts[3]]

\* (cmd, msg) or the failure pair (None, None)
_parse_message(msg) ==
    LET failure == [cmd |-> CHATLIB_ERROR_RETURN, msg |-> CHATLIB_ERROR_RETURN]
        msg_parts == StrSplit(msg, FIELDS_DELIMETER)
    IN  IF Len(msg_parts) # MESSAGE_PARTS THEN failure
        ELSE LET cmd == msg_parts[1]
                 data_len_str == msg_parts[2]
                 data == msg_parts[3]
                 data_len == PyInt(data_len_str)
             IN  IF Len(cmd) # CMD_FIELD_LENGTH THEN failure
                 ELSE IF ~data_len.ok THEN failure
                 ELSE IF ~(0 <= data_len.val /\ data_len.val < DATA_FIELD_MAX_LENGTH)
                      THEN failure
                 ELSE IF data_len.val # Len(data) THEN failure
                 ELSE [cmd |-> StrStrip(cmd), msg |-> data]


(***************************************************************************)
(* Server state (Server.__init__)                                          *)
(***************************************************************************)
VARIABLES
    users,             \* Server._users: name key -> User
    questions,         \* Server._questions: number -> Question
    logged_users,      \* Server._logged_users: peer address -> name key
    messages_to_send,  \* Server._messages_to_send: list of (socket, msg)
    clients,           \* Server._clients: list of accepted sockets
    closed,            \* sockets close() was called on
    peername,          \* socket -> its peer address (0: not accepted yet)
    accepted,          \* number of sockets accept() has returned
    pc,                \* position of main: "select" or "loop"
    ready_to_read,     \* what is left of select's first list (0: listener)
    ready_to_write,    \* select's second list
    wire,              \* send() calls of the latest write pass
    last,              \* the latest step of main
    raised,            \* exception that left main, "None" while it runs
    call               \* a chatlib call on its own: arguments and return value

vars == <<users, questions, logged_users, messages_to_send, clients, closed,
          peername, accepted, pc, ready_to_read, ready_to_write, wire, last, raised,
          call>>

Sockets == 1..MaxSockets

Addrs == 1..MaxAddrs

\* the listening socket in select's lists
LISTENER == 0

User(name, password, score, questions_asked) ==
    [name |-> name, password |-> password, score |-> score,
     questions_asked |-> questions_asked]

Question(question, optional_answers, answer) ==
    [question |-> question, optional_answers |-> optional_answers,
     answer |-> answer]

InitUsers ==
    << [k |-> <<"t", "e", "s", "t">>, v |-> User(<<"t", "e", "s", "t">>, <<"t", "e", "s", "t">>, 0, <<>>)],
       [k |-> <<"m", "a", "s", "t", "e", "r">>, v |-> User(<<"m", "a", "s", "t", "e", "r">>, <<"1", "2", "3", "4", "5">>, 300, <<2313, 4122>>)],
       [k |-> <<"w", "a", "n", "n", "a", "b", "e", " ", "m", "a", "s", "t", "e", "r">>,
        v |-> User(<<"w", "a", "n", "n", "a", "b", "e", " ", "m", "a", "s", "t", "e", "r">>, <<"1", "2", "3", "4", "5">>, 295, <<2313, 4122>>)],
       [k |-> <<"l", "o", "o", "s", "e", "r">>, v |-> User(<<"m", "a", "s", "t", "e", "r">>, <<"1", "2", "3", "4", "5">>, 0, <<>>)] >>

InitQuestions ==
    << [k |-> 1, v |-> Question(<<"H", "o", "w", " ", "m", "u", "c", "h", " ", "i", "s", " ", "2", "+", "2", "?">>,
                                <<<<"3">>, <<"4">>, <<"2">>, <<"1">>>>, 2)],
       [k |-> 2, v |-> Question(<<"W", "h", "a", "t", " ", "i", "s", " ", "t", "h", "e", " ", "c", "a", "p", "i", "t", "a", "l", " ", "o", "f", " ", "F", "r", "a", "n", "c", "e", "?">>,
                                <<<<"L", "i", "o", "n">>, <<"M", "a", "r", "s", "e", "i", "l", "l", "e">>, <<"P", "a", "r", "i", "s">>, <<"M", "o", "n", "t", "p", "e", "l", "l", "i", "e", "r">>>>, 3)],
       [k |-> 3, v |-> Question(<<"W", "h", "a", "t", " ", "g", "e", "o", "m", "e", "t", "r", "i", "c", " ", "s", "h", "a", "p", "e", " ", "i", "s", " ", "g", "e", "n", "e", "r", "a", "l", "l", "y", " ", "u", "s", "e", "d", " ", "f", "o", "r", " ", "s", "t", "o", "p", " ", "s", "i", "g", "n", "s", "?">>,
                                <<<<"T", "r", "i", "a", "n", "g", "l", "e">>, <<"O", "c", "t", "a", "g", "o", "n">>, <<"R", "e", "c", "t", "a", "n", "g", "l", "e">>, <<"S", "q", "u", "a", "r", "e">>>>, 2)],
       [k |-> 4, v |-> Question(<<"W", "h", "a", "t", " ", "i", "s", " ", "t", "h", "e", " ", "n", "a", "m", "e", " ", "o", "f", " ", "t", "h", "e", " ", "b", "i", "g", "g", "e", "s", "t", " ", "t", "e", "c", "h", "n", "o", "l", "o", "g", "y", " ", "c", "o", "m", "p", "a", "n", "y", " ", "i", "n", " ", "S", "o", "u", "t", "h", " ", "K", "o", "r", "e", "a", "?">>,
                                <<<<"M", "a", "z", "d", "a">>, <<"X", "i", "a", "o", "m", "i">>, <<"A", "p", "p", "l", "e">>, <<"S", "a", "m", "s", "u", "n", "g">>>>, 4)] >>

\* no chatlib call is made apart from the server's
NoCall == [fn |-> "", kind |-> "", args |-> <<>>, ret |-> <<>>]

ServerInit ==
    /\ users = InitUsers
    /\ questions = InitQuestions
    /\ logged_users = <<>>
    /\ messages_to_send = <<>>
    /\ clients = <<>>
    /\ closed = {}
    /\ peername = [s \in Sockets |-> 0]
    /\ accepted = 0
    /\ pc = "select"
    /\ ready_to_read = <<>>
    /\ ready_to_write = {}
    /\ wire = <<>>
    /\ last = [op |-> "init", client |-> 0, cmd |-> <<>>, data |-> <<>>]
    /\ raised = "None"

Init ==
    /\ ServerInit
    /\ call = NoCall

(***************************************************************************)
(* The fields the handlers change, threaded through them so that what a    *)
(* handler did before it raised stays done.                                *)
(***************************************************************************)
Current ==
    [users |-> users, logged_users |-> logged_users,
     messages_to_send |-> messages_to_send, clients |-> clients,
     closed |-> closed, raised |-> "None"]

Raise(st, exception) == [st EXCEPT !.raised = exception]

\* Python objects with the type isinstance sees
SocketObj(s) == [type |-> "socket", id |-> s]

StrObj(s) == [type |-> "str", val |-> s]

ServerObj == [type |-> "Server"]

isinstance(obj, type) == obj.type = type

InList(l, x) == \E i \in 1..Len(l) : l[i] = x

\* list.remove(x): drops the first element equal to x
ListRemove(l, x) ==
    LET i == CHOOSE j \in 1..Len(l) : l[j] = x /\ \A k \in 1..(j - 1) : l[k] # x
    IN  SubSeq(l, 1, i - 1) \o SubSeq(l, i + 1, Len(l))

getpeername(client) == peername[client]

\* a reply queued for the first live client, whoever sent the command
_build_and_append_message_to_first(self, client, cmd, data, st) ==
    IF ~(isinstance(client, "socket") /\ isinstance(cmd, "str")
         /\ isinstance(data, "str"))
    THEN Raise(st, "AssertionError")
    ELSE IF ~DictHas(PROTOCOL_SERVER_OK, cmd.val) THEN Raise(st, "AssertionError")
    ELSE [st EXCEPT !.messages_to_send =
              Append(@, [client |-> st.clients[1],
                         msg |-> _build_message(DictGet(PROTOCOL_SERVER_OK, cmd.val),
                                                data.val)])]

(***************************************************************************)
(* Server._build_and_append_message, with self explicit                    *)
(***************************************************************************)
_build_and_append_message(self, client, cmd, data, st) ==
    IF ~(isinstance(client, "socket") /\ isinstance(cmd, "str")
         /\ isinstance(data, "str"))
    THEN Raise(st, "AssertionError")
    ELSE IF cmd.val # PROTOCOL_SERVER_ERROR /\ ~DictHas(PROTOCOL_SERVER_OK, cmd.val)
    THEN Raise(st, "AssertionError")
    ELSE LET cmd_protocol == IF cmd.val = PROTOCOL_SERVER_ERROR THEN cmd.val
                             ELSE DictGet(PROTOCOL_SERVER_OK, cmd.val)
             msg == _build_message(cmd_protocol, data.val)
         IN  IF ~StrTruthy(msg) THEN Raise(st, "AssertionError")
             ELSE IF ~isinstance(self, "Server") THEN Raise(st, "AttributeError")
             ELSE [st EXCEPT !.messages_to_send =
                       Append(@, [client |-> client.id, msg |-> msg])]

(***************************************************************************)
(* Server._send_error: a staticmethod that calls the instance method on    *)
(* the class, so its three arguments land on (self, client, cmd) and data  *)
(* keeps its default ''                                                    *)
(***************************************************************************)
_send_error(client, error_mgs, st) ==
    _build_and_append_message(SocketObj(client), StrObj(PROTOCOL_SERVER_ERROR),
                              StrObj(error_mgs), StrObj(<<>>), st)

\* a login that answers LOGIN_OK and forgets to record the session
_handle_login_message_unrecorded(client, data, st) ==
    LET data_list == _split_data(data, 2)
    IN  IF ~ListTruthy(data_list) THEN _send_error(client, UNKNOWN_ERROR_OCCURRED, st)
        ELSE IF ~DictHas(st.users, data_list[1])
        THEN _send_error(client, ERROR_USERNAME_DOES_NOT_EXIST, st)
        ELSE IF data_list[2] # DictGet(st.users, data_list[1]).password
        THEN _send_error(client, ERROR_PASSWORD_DOES_NOT_MATCH, st)
        ELSE _build_and_append_message(ServerObj, SocketObj(client), StrObj(<<"l", "o", "g", "i", "n">>),
                                       StrObj(<<>>), st)

(***************************************************************************)
(* Server._handle_login_message                                            *)
(***************************************************************************)
_handle_login_message(client, data, st) ==
    LET data_list == _split_data(data, 2)
    IN  IF ~ListTruthy(data_list) THEN _send_error(client, UNKNOWN_ERROR_OCCURRED, st)
        ELSE LET username == data_list[1]
                 password == data_list[2]
             IN  IF ~DictHas(st.users, username)
                 THEN _send_error(client, ERROR_USERNAME_DOES_NOT_EXIST, st)
                 ELSE IF password # DictGet(st.users, username).password
                 THEN _send_error(client, ERROR_PASSWORD_DOES_NOT_MATCH, st)
                 ELSE LET st1 == _build_and_append_message(
                                     ServerObj, SocketObj(client), StrObj(<<"l", "o", "g", "i", "n">>),
                                     StrObj(<<>>), st)
                      IN  IF st1.raised # "None" THEN st1
                          ELSE IF DictHas(st1.logged_users, getpeername(client))
                          THEN Raise(st1, "AssertionError")
                          ELSE [st1 EXCEPT !.logged_users =
                                    DictPut(@, getpeername(client), username)]

\* a logout that closes the socket and forgets the live-client set
_handle_logout_message_keeps_client(client, st) ==
    IF ~DictHas(st.logged_users, getpeername(client))
    THEN Raise(st, "AssertionError")
    ELSE [st EXCEPT !.logged_users = DictDel(@, getpeername(client)),
                    !.closed = @ \cup {client}]

(***************************************************************************)
(* Server._handle_logout_message                                           *)
(***************************************************************************)
_handle_logout_message(client, st) ==
    IF ~DictHas(st.logged_users, getpeername(client))
    THEN Raise(st, "AssertionError")
    ELSE LET st1 == [st EXCEPT !.logged_users = DictDel(@, getpeername(client)),
                               !.closed = @ \cup {client}]
         IN  IF ~InList(st1.clients, client) THEN Raise(st1, "AssertionError")
             ELSE [st1 EXCEPT !.clients = ListRemove(@, client)]

(***************************************************************************)
(* Server._handle_get_score_message                                        *)
(***************************************************************************)
_handle_get_score_message(client, st) ==
    LET client_address == getpeername(client)
    IN  IF ~DictHas(st.logged_users, client_address)
        THEN Raise(st, "AssertionError")
        ELSE LET username == DictGet(st.logged_users, client_address)
             IN  IF ~DictHas(st.users, username) THEN Raise(st, "AssertionError")
                 ELSE _build_and_append_message(
                          ServerObj, SocketObj(client), StrObj(<<"g", "e", "t", "_", "s", "c", "o", "r", "e">>),
                          StrObj(PyStr(DictGet(st.users, username).score)), st)

(***************************************************************************)
(* Server._handle_get_highscore_message                                    *)
(***************************************************************************)
\* a sort by ascending score, reversed: equal scores end up in reverse order
RECURSIVE SortedByScoreReversed(_)
SortedByScoreReversed(l) ==
    IF Len(l) = 0 THEN <<>>
    ELSE LET front == SortedByScoreReversed(SubSeq(l, 1, Len(l) - 1))
             x == l[Len(l)]
             n == Cardinality({i \in 1..Len(front) : front[i].score > x.score})
         IN  SubSeq(front, 1, n) \o <<x>> \o SubSeq(front, n + 1, Len(front))

\* sorted(l, key=score, reverse=True): stable, equal scores keep their order
RECURSIVE SortedByScoreDesc(_)
SortedByScoreDesc(l) ==
    IF Len(l) = 0 THEN <<>>
    ELSE LET front == SortedByScoreDesc(SubSeq(l, 1, Len(l) - 1))
             x == l[Len(l)]
             n == Cardinality({i \in 1..Len(front) : front[i].score >= x.score})
         IN  SubSeq(front, 1, n) \o <<x>> \o SubSeq(front, n + 1, Len(front))

_handle_get_highscore_message(client, st) ==
    LET all == SortedByScoreDesc(DictValues(st.users))
        greatest == SubSeq(all, 1, IF Len(all) < HIGHSCORE_TABLE_SIZE THEN Len(all)
                                   ELSE HIGHSCORE_TABLE_SIZE)
        highscore == StrJoin(<<"\n">>,
                             [i \in 1..Len(greatest) |->
                                 StrJoin(<<":", " ">>, <<greatest[i].name,
                                                  PyStr(greatest[i].score)>>)])
    IN  _build_and_append_message(ServerObj, SocketObj(client),
                                  StrObj(<<"g", "e", "t", "_", "h", "i", "g", "h", "s", "c", "o", "r", "e">>), StrObj(highscore), st)

(***************************************************************************)
(* Server._handle_get_logged_users_message                                 *)
(***************************************************************************)
_handle_get_logged_users_message(client, st) ==
    LET logged_msg == StrJoin(<<LOGGED_USERS_DELIMETER>>, DictValues(st.logged_users))
    IN  _build_and_append_message(ServerObj, SocketObj(client),
                                  StrObj(<<"g", "e", "t", "_", "l", "o", "g", "g", "e", "d", "_", "u", "s", "e", "r", "s">>), StrObj(logged_msg), st)

\* a question sent without its number
_get_random_question_unnumbered(q_num) ==
    LET question == DictGet(questions, q_num)
    IN  _join_data(<<question.question>> \o question.optional_answers)

(***************************************************************************)
(* Server._get_random_question; q_num is what random.choice returned       *)
(***************************************************************************)
_get_random_question(q_num) ==
    LET question == DictGet(questions, q_num)
        q_elements == <<PyStr(q_num), question.question>> \o question.optional_answers
    IN  _join_data(q_elements)

_handle_get_question_message(client, q_num, st) ==
    _build_and_append_message(ServerObj, SocketObj(client), StrObj(<<"g", "e", "t", "_", "q", "u", "e", "s", "t", "i", "o", "n">>),
                              StrObj(_get_random_question(q_num)), st)

\* an add_score that also records the question as asked
add_score_marks_asked(user, score_to_add) ==
    [user EXCEPT !.score = @ + score_to_add, !.questions_asked = Append(@, 1)]

\* an add_score that drops the reward
add_score_lost(user, score_to_add) == user

\* an add_score that counts answers instead of adding the reward
add_score_by_one(user, score_to_add) == [user EXCEPT !.score = @ + 1]

\* User.add_score
add_score(user, score_to_add) == [user EXCEPT !.score = @ + score_to_add]

(***************************************************************************)
(* Server._handle_send_answer_message                                      *)
(***************************************************************************)
_handle_send_answer_message(client, answer_data, st) ==
    LET answer_parts == _split_data(answer_data, 2)
    IN  IF ~ListTruthy(answer_parts) \/ Len(answer_parts) # 2
        THEN _send_error(client, ERROR_INVALID_ANSWER, st)
        ELSE LET q_num == PyInt(answer_parts[1])
                 answer == PyInt(answer_parts[2])
             IN  IF \/ ~q_num.ok
                    \/ ~answer.ok
                    \/ ~DictHas(questions, q_num.val)
                    \/ answer.val \notin 1..NUMBER_OF_ANSWERS
                 THEN _send_error(client, ERROR_INVALID_ANSWER, st)
                 ELSE LET question == DictGet(questions, q_num.val)
                      IN  IF answer.val = question.answer
                          THEN LET st1 == _build_and_append_message(
                                              ServerObj, SocketObj(client),
                                              StrObj(<<"s", "e", "n", "d", "_", "a", "n", "s", "w", "e", "r", "_", "c", "o", "r", "r", "e", "c", "t">>),
                                              StrObj(<<>>), st)
                               IN  IF st1.raised # "None" THEN st1
                                   ELSE IF ~DictHas(st1.logged_users, getpeername(client))
                                   THEN Raise(st1, "KeyError")
                                   ELSE LET username ==
                                                DictGet(st1.logged_users,
                                                        getpeername(client))
                                            user == DictGet(st1.users, username)
                                        IN  [st1 EXCEPT !.users =
                                                 DictPut(@, username,
                                                     add_score(user, CORRECT_ANSWER_SCORE))]
                          ELSE _build_and_append_message(
                                   ServerObj, SocketObj(client),
                                   StrObj(<<"s", "e", "n", "d", "_", "a", "n", "s", "w", "e", "r", "_", "w", "r", "o", "n", "g">>),
                                   StrObj(PyStr(question.answer)), st)

(***************************************************************************)
(* Server.handle_client_message                                            *)
(***************************************************************************)
handle_client_message(client, cmd, data, q_num, st) ==
    IF cmd = DictGet(PROTOCOL_CLIENT, <<"l", "o", "g", "i", "n">>)
    THEN _handle_login_message(client, data, st)
    ELSE IF cmd = DictGet(PROTOCOL_CLIENT, <<"l", "o", "g", "o", "u", "t">>)
    THEN _handle_logout_message(client, st)
    ELSE IF cmd = DictGet(PROTOCOL_CLIENT, <<"g", "e", "t", "_", "s", "c", "o", "r", "e">>)
    THEN _handle_get_score_message(client, st)
    ELSE IF cmd = DictGet(PROTOCOL_CLIENT, <<"g", "e", "t", "_", "h", "i", "g", "h", "s", "c", "o", "r", "e">>)
    THEN _handle_get_highscore_message(client, st)
    ELSE IF cmd = DictGet(PROTOCOL_CLIENT, <<"g", "e", "t", "_", "l", "o", "g", "g", "e", "d", "_", "u", "s", "e", "r", "s">>)
    THEN _handle_get_logged_users_message(client, st)
    ELSE IF cmd = DictGet(PROTOCOL_CLIENT, <<"g", "e", "t", "_", "q", "u", "e", "s", "t", "i", "o", "n">>)
    THEN _handle_get_question_message(client, q_num, st)
    ELSE IF cmd = DictGet(PROTOCOL_CLIENT, <<"s", "e", "n", "d", "_", "a", "n", "s", "w", "e", "r">>)
    THEN _handle_send_answer_message(client, data, st)
    ELSE _send_error(client, UNKNOWN_ERROR_OCCURRED, st)

\* a teardown that closes the socket and leaves it in the live-client set
terminate_client_keeps_client(client, peer_lost, st) ==
    [st EXCEPT !.closed = @ \cup {client}]

(***************************************************************************)
(* Server.terminate_client; peer_lost says that getpeername raises OSError *)
(***************************************************************************)
terminate_client(client, peer_lost, st) ==
    IF ~InList(st.clients, client) THEN st
    ELSE LET st1 == [st EXCEPT !.clients = ListRemove(@, client)]
         IN  IF peer_lost THEN st1
             ELSE [st1 EXCEPT !.logged_users =
                                  IF DictHas(@, getpeername(client))
                                  THEN DictDel(@, getpeername(client)) ELSE @,
                              !.closed = @ \cup {client}]

(***************************************************************************)
(* The blocking server, src/src/trivia_server.py: one connection at a      *)
(* time, every reply sent as soon as it is built.  Its handlers work on    *)
(* its own fields: users, logged_users, and the messages it has sent.      *)
(***************************************************************************)
BlockingCurrent ==
    [users |-> users, logged_users |-> logged_users, sent |-> <<>>,
     closed |-> closed, raised |-> "None"]

\* Server.build_and_send_message, a staticmethod
build_and_send_message(client, cmd, data, st) ==
    IF ~isinstance(client, "socket") THEN Raise(st, "TypeError")
    ELSE IF ~isinstance(cmd, "str") \/ ~isinstance(data, "str")
    THEN Raise(st, "TypeError")
    ELSE IF cmd.val # PROTOCOL_SERVER_ERROR /\ ~DictHas(PROTOCOL_SERVER_OK, cmd.val)
    THEN Raise(st, "ValueError")
    ELSE LET cmd_protocol == IF cmd.val = PROTOCOL_SERVER_ERROR THEN cmd.val
                             ELSE DictGet(PROTOCOL_SERVER_OK, cmd.val)
             msg == _build_message(cmd_protocol, data.val)
         IN  IF ~StrTruthy(msg) THEN Raise(st, "AttributeError")
             ELSE [st EXCEPT !.sent = Append(@, msg)]

\* Server._send_error: a staticmethod that calls a staticmethod
Blocking_send_error(client, error_mgs, st) ==
    build_and_send_message(SocketObj(client), StrObj(PROTOCOL_SERVER_ERROR),
                           StrObj(error_mgs), st)

Blocking_handle_login_message(client, data, st) ==
    LET data_list == _split_data(data, 2)
    IN  IF ~ListTruthy(data_list)
        THEN Blocking_send_error(client, UNKNOWN_ERROR_OCCURRED, st)
        ELSE LET username == data_list[1]
                 password == data_list[2]
             IN  IF ~DictHas(st.users, username)
                 THEN Blocking_send_error(client, ERROR_USERNAME_DOES_NOT_EXIST, st)
                 ELSE IF password # DictGet(st.users, username).password
                 THEN Blocking_send_error(client, ERROR_PASSWORD_DOES_NOT_MATCH, st)
                 ELSE LET st1 == build_and_send_message(
                                     SocketObj(client), StrObj(<<"l", "o", "g", "i", "n">>),
                                     StrObj(<<>>), st)
                      IN  IF st1.raised # "None" THEN st1
                          ELSE IF DictHas(st1.logged_users, getpeername(client))
                          THEN Raise(st1, "AssertionError")
                          ELSE [st1 EXCEPT !.logged_users =
                                    DictPut(@, getpeername(client), username)]

Blocking_handle_logout_message(client, st) ==
    IF ~DictHas(st.logged_users, getpeername(client))
    THEN Raise(st, "AssertionError")
    ELSE [st EXCEPT !.logged_users = DictDel(@, getpeername(client)),
                    !.closed = @ \cup {client}]

Blocking_handle_get_score_message(client, st) ==
    LET client_address == getpeername(client)
    IN  IF ~DictHas(st.logged_users, client_address)
        THEN Raise(st, "AssertionError")
        ELSE LET username == DictGet(st.logged_users, client_address)
             IN  IF ~DictHas(st.users, username) THEN Raise(st, "AssertionError")
                 ELSE build_and_send_message(
                          SocketObj(client), StrObj(<<"g", "e", "t", "_", "s", "c", "o", "r", "e">>),
                          StrObj(PyStr(DictGet(st.users, username).score)), st)

Blocking_handle_get_highscore_message(client, st) ==
    LET all == SortedByScoreDesc(DictValues(st.users))
        greatest == SubSeq(all, 1, IF Len(all) < HIGHSCORE_TABLE_SIZE THEN Len(all)
                                   ELSE HIGHSCORE_TABLE_SIZE)
        highscore == StrJoin(<<"\n">>,
                             [i \in 1..Len(greatest) |->
                                 StrJoin(<<":", " ">>, <<greatest[i].name,
                                                  PyStr(greatest[i].score)>>)])
    IN  build_and_send_message(SocketObj(client), StrObj(<<"g", "e", "t", "_", "h", "i", "g", "h", "s", "c", "o", "r", "e">>),
                               StrObj(highscore), st)

Blocking_handle_get_logged_users_message(client, st) ==
    LET logged_msg == StrJoin(<<LOGGED_USERS_DELIMETER>>, DictValues(st.logged_users))
    IN  build_and_send_message(SocketObj(client), StrObj(<<"g", "e", "t", "_", "l", "o", "g", "g", "e", "d", "_", "u", "s", "e", "r", "s">>),
                               StrObj(logged_msg), st)

Blocking_get_random_question(q_num) ==
    LET q == DictGet(questions, q_num)
    IN  _join_data(<<PyStr(q_num), q.question>> \o q.optional_answers)

Blocking_handle_get_question_message(client, q_num, st) ==
    build_and_send_message(SocketObj(client), StrObj(<<"g", "e", "t", "_", "q", "u", "e", "s", "t", "i", "o", "n">>),
                           StrObj(Blocking_get_random_question(q_num)), st)

Blocking_handle_send_answer_message(client, answer_data, st) ==
    LET answer_parts == _split_data(answer_data, 2)
    IN  IF ~ListTruthy(answer_parts) \/ Len(answer_parts) # 2
        THEN Blocking_send_error(client, ERROR_INVALID_ANSWER, st)
        ELSE LET q_num == PyInt(answer_parts[1])
                 answer == PyInt(answer_parts[2])
             IN  IF \/ ~q_num.ok
                    \/ ~answer.ok
                    \/ ~DictHas(questions, q_num.val)
                    \/ answer.val \notin 1..NUMBER_OF_ANSWERS
                 THEN Blocking_send_error(client, ERROR_INVALID_ANSWER, st)
                 ELSE LET question == DictGet(questions, q_num.val)
                      IN  IF answer.val = question.answer
                          THEN LET st1 == build_and_send_message(
                                              SocketObj(client),
                                              StrObj(<<"s", "e", "n", "d", "_", "a", "n", "s", "w", "e", "r", "_", "c", "o", "r", "r", "e", "c", "t">>),
                                              StrObj(<<>>), st)
                               IN  IF st1.raised # "None" THEN st1
                                   ELSE IF ~DictHas(st1.logged_users, getpeername(client))
                                   THEN Raise(st1, "KeyError")
                                   ELSE LET username ==
                                                DictGet(st1.logged_users,
                                                        getpeername(client))
                                            user == DictGet(st1.users, username)
                                        IN  [st1 EXCEPT !.users =
                                                 DictPut(@, username,
                                                     add_score(user, CORRECT_ANSWER_SCORE))]
                          ELSE build_and_send_message(
                                   SocketObj(client), StrObj(<<"s", "e", "n", "d", "_", "a", "n", "s", "w", "e", "r", "_", "w", "r", "o", "n", "g">>),
                                   StrObj(PyStr(question.answer)), st)

Blocking_handle_client_message(client, cmd, data, q_num, st) ==
    IF cmd = DictGet(PROTOCOL_CLIENT, <<"l", "o", "g", "i", "n">>)
    THEN Blocking_handle_login_message(client, data, st)
    ELSE IF cmd = DictGet(PROTOCOL_CLIENT, <<"l", "o", "g", "o", "u", "t">>)
    THEN Blocking_handle_logout_message(client, st)
    ELSE IF cmd = DictGet(PROTOCOL_CLIENT, <<"g", "e", "t", "_", "s", "c", "o", "r", "e">>)
    THEN Blocking_handle_get_score_message(client, st)
    ELSE IF cmd = DictGet(PROTOCOL_CLIENT, <<"g", "e", "t", "_", "h", "i", "g", "h", "s", "c", "o", "r", "e">>)
    THEN Blocking_handle_get_highscore_message(client, st)
    ELSE IF cmd = DictGet(PROTOCOL_CLIENT, <<"g", "e", "t", "_", "l", "o", "g", "g", "e", "d", "_", "u", "s", "e", "r", "s">>)
    THEN Blocking_handle_get_logged_users_message(client, st)
    ELSE IF cmd = DictGet(PROTOCOL_CLIENT, <<"g", "e", "t", "_", "q", "u", "e", "s", "t", "i", "o", "n">>)
    THEN Blocking_handle_get_question_message(client, q_num, st)
    ELSE IF cmd = DictGet(PROTOCOL_CLIENT, <<"s", "e", "n", "d", "_", "a", "n", "s", "w", "e", "r">>)
    THEN Blocking_handle_send_answer_message(client, data, st)
    ELSE Blocking_send_error(client, UNKNOWN_ERROR_OCCURRED, st)

(***************************************************************************)
(* Server.send_messages_to_ready_sockets.  The for loop walks the list it  *)
(* removes from: i is the iterator's index, n the number of send() calls   *)
(* made.  send() number k raises when k is in fails, and always on a       *)
(* socket that was closed or torn down; the teardown after failed send k   *)
(* finds getpeername raising when k is in lost.                            *)
(***************************************************************************)
RECURSIVE SendLoop(_, _, _, _, _, _, _)
SendLoop(i, n, ready, fails, lost, log, st) ==
    IF i > Len(st.messages_to_send) THEN [st |-> st, wire |-> log]
    ELSE LET msg == st.messages_to_send[i]
             curr_socket == msg.client
         IN  IF curr_socket \notin ready
             THEN SendLoop(i + 1, n, ready, fails, lost, log, st)
             ELSE LET st1 == [st EXCEPT !.messages_to_send = ListRemove(@, msg)]
                      sent == /\ curr_socket \notin st1.closed
                              /\ InList(st1.clients, curr_socket)
                              /\ (n + 1) \notin fails
                      st2 == IF sent THEN st1
                             ELSE terminate_client(curr_socket, (n + 1) \in lost, st1)
                  IN  SendLoop(i + 1, n + 1, ready, fails, lost,
                               Append(log, [client |-> curr_socket, msg |-> msg.msg,
                                            sent |-> sent]),
                               st2)

\* a write pass that waits for the client of the first entry
send_messages_to_ready_sockets_in_turn(ready, fails, lost, st) ==
    IF st.messages_to_send # <<>> /\ st.messages_to_send[1].client \notin ready
    THEN [st |-> st, wire |-> <<>>]
    ELSE SendLoop(1, 0, ready, fails, lost, <<>>, st)

send_messages_to_ready_sockets(ready, fails, lost, st) ==
    SendLoop(1, 0, ready, fails, lost, <<>>, st)

(***************************************************************************)
(* What the clients put on the wire                                        *)
(***************************************************************************)
Requests ==
    { [cmd |-> <<"L", "O", "G", "I", "N">>, data |-> <<"t", "e", "s", "t", "#", "t", "e", "s", "t">>],
      [cmd |-> <<"L", "O", "G", "I", "N">>, data |-> <<"l", "o", "o", "s", "e", "r", "#", "1", "2", "3", "4", "5">>],
      [cmd |-> <<"L", "O", "G", "I", "N">>, data |-> <<"b", "o", "b", "#", "t", "e", "s", "t">>],
      [cmd |-> <<"L", "O", "G", "I", "N">>, data |-> <<"t", "e", "s", "t", "#", "1", "2", "3", "4", "5">>],
      [cmd |-> <<"L", "O", "G", "I", "N">>, data |-> <<"t", "e", "s", "t">>],
      [cmd |-> <<"L", "O", "G", "O", "U", "T">>, data |-> <<>>],
      [cmd |-> <<"M", "Y", "_", "S", "C", "O", "R", "E">>, data |-> <<>>],
      [cmd |-> <<"H", "I", "G", "H", "S", "C", "O", "R", "E">>, data |-> <<>>],
      [cmd |-> <<"L", "O", "G", "G", "E", "D">>, data |-> <<>>],
      [cmd |-> <<"G", "E", "T", "_", "Q", "U", "E", "S", "T", "I", "O", "N">>, data |-> <<>>],
      [cmd |-> <<"S", "E", "N", "D", "_", "A", "N", "S", "W", "E", "R">>, data |-> <<"1", "#", "2">>],
      [cmd |-> <<"S", "E", "N", "D", "_", "A", "N", "S", "W", "E", "R">>, data |-> <<"1", "#", "3">>],
      [cmd |-> <<"S", "E", "N", "D", "_", "A", "N", "S", "W", "E", "R">>, data |-> <<"1", "#", "5">>],
      [cmd |-> <<"S", "E", "N", "D", "_", "A", "N", "S", "W", "E", "R">>, data |-> <<"7", "#", "1">>],
      [cmd |-> <<"S", "E", "N", "D", "_", "A", "N", "S", "W", "E", "R">>, data |-> <<"x", "#", "1">>],
      [cmd |-> <<"S", "E", "N", "D", "_", "A", "N", "S", "W", "E", "R">>, data |-> <<"1">>],
      [cmd |-> <<"B", "Y", "E">>, data |-> <<>>] }

\* received buffers: the encoded requests, a zero-length read, a frame cut
\* short in its payload and in its command field, and a frame whose command
\* field is blank
Frames ==
    { _build_message(r.cmd, r.data) : r \in Requests }
        \cup { <<>>, <<"L", "O", "G", "I", "N", " ", " ", " ", " ", " ", " ", " ", " ", " ", " ", " ", "|", "0", "0", "0", "9", "|", "t", "e", "s", "t">>, <<"L", "O", "G", "I", "N", " ", " ", " ", " ", " ">>,
               <<" ", " ", " ", " ", " ", " ", " ", " ", " ", " ", " ", " ", " ", " ", " ", " ", "|", "0", "0", "0", "0", "|">> }

\* the buffers of BacklogSpec
BacklogFrames ==
    { _build_message(r.cmd, r.data) : r \in
        { [cmd |-> <<"L", "O", "G", "I", "N">>, data |-> <<"t", "e", "s", "t", "#", "t", "e", "s", "t">>],
          [cmd |-> <<"L", "O", "G", "O", "U", "T">>, data |-> <<>>],
          [cmd |-> <<"M", "Y", "_", "S", "C", "O", "R", "E">>, data |-> <<>>] } } \cup { <<>> }

\* what recv_message_and_parse makes of each buffer
Parsed == [frame \in Frames \cup BacklogFrames |-> _parse_message(frame)]

Range(l) == { l[i] : i \in 1..Len(l) }

TotalScore(us) ==
    LET RECURSIVE Sum(_)
        Sum(i) == IF i = 0 THEN 0 ELSE us[i].v.score + Sum(i - 1)
    IN  Sum(Len(us))

Commit(st) ==
    /\ users' = st.users
    /\ logged_users' = st.logged_users
    /\ messages_to_send' = st.messages_to_send
    /\ clients' = st.clients
    /\ closed' = st.closed
    /\ raised' = st.raised

Running == raised = "None"

\* main is in its for loop with curr a client socket
Reading ==
    /\ Running
    /\ pc = "loop"
    /\ ready_to_read # <<>>
    /\ Head(ready_to_read) # LISTENER

curr == Head(ready_to_read)

\* what main did last: the call it made and the arguments it passed
Event(op, client, cmd, data) ==
    [op |-> op, client |-> client, cmd |-> cmd, data |-> data]

\* the for loop goes on to the next reader; an exception that leaves main
\* takes main's locals with it
NextReader ==
    /\ ready_to_read' = IF raised' = "None" THEN Tail(ready_to_read) ELSE <<>>
    /\ ready_to_write' = IF raised' = "None" THEN ready_to_write ELSE {}
    /\ UNCHANGED <<questions, peername, accepted, pc, wire, call>>

(***************************************************************************)
(* Server.select_clients, called by main.  The wait reports no more        *)
(* readers than the bound on the queue leaves room for replies.            *)
(***************************************************************************)
SelectClients(bound) ==
    /\ Running
    /\ pc = "select"
    /\ \E R \in SUBSET ({LISTENER} \cup Range(clients)), W \in SUBSET Range(clients) :
          /\ R \cup W # {}
          /\ LISTENER \in R => accepted < MaxSockets
          /\ Cardinality(R \ {LISTENER}) + Len(messages_to_send) <= bound
          /\ ready_to_read' = SelectSeq(<<LISTENER>> \o clients, LAMBDA s : s \in R)
          /\ ready_to_write' = W
    /\ pc' = "loop"
    /\ wire' = <<>>
    /\ last' = Event("select", LISTENER, <<>>, <<>>)
    /\ UNCHANGED <<users, questions, logged_users, messages_to_send, clients,
                   closed, peername, accepted, raised, call>>

(***************************************************************************)
(* Server.accept_new_client                                                *)
(***************************************************************************)
AcceptNewClient ==
    /\ Running
    /\ pc = "loop"
    /\ ready_to_read # <<>>
    /\ Head(ready_to_read) = LISTENER
    /\ \E a \in Addrs :
          /\ \A s \in Range(clients) : peername[s] # a
          \* addresses are interchangeable: a new one is the next unused one
          /\ a = 1 \/ \E s \in Sockets : peername[s] = a \/ peername[s] = a - 1
          /\ peername' = [peername EXCEPT ![accepted + 1] = a]
    /\ clients' = Append(clients, accepted + 1)
    /\ accepted' = accepted + 1
    /\ ready_to_read' = Tail(ready_to_read)
    /\ last' = Event("accept", accepted + 1, <<>>, <<>>)
    /\ UNCHANGED <<users, questions, logged_users, messages_to_send, closed, pc,
                   ready_to_write, wire, raised, call>>

(***************************************************************************)
(* main: recv_message_and_parse(curr) gave no command                      *)
(***************************************************************************)
\* recv raised ConnectionResetError or OSError
RecvError ==
    /\ Reading
    /\ \E peer_lost \in BOOLEAN : Commit(terminate_client(curr, peer_lost, Current))
    /\ last' = Event("recv_error", curr, <<>>, <<>>)
    /\ NextReader

\* the bytes received are not UTF-8: decode() raises out of main
RecvUndecodable ==
    /\ Reading
    /\ Commit(Raise(Current, "UnicodeDecodeError"))
    /\ last' = Event("recv_undecodable", curr, <<>>, <<>>)
    /\ NextReader

\* _parse_message returned no command
RecvNoMessage(F) ==
    /\ Reading
    /\ \E frame \in F :
          /\ ~StrTruthy(Parsed[frame].cmd)
          /\ Commit(terminate_client(curr, FALSE, Current))
          /\ last' = Event("no_message", curr, <<>>, frame)
    /\ NextReader

(***************************************************************************)
(* main: recv_message_and_parse(curr) gave a command, which                *)
(* handle_client_message dispatches                                        *)
(***************************************************************************)
Dispatch(frame, q_num) ==
    LET m == Parsed[frame]
    IN  handle_client_message(curr, m.cmd, m.msg, q_num, Current)

Received(frame, command) ==
    /\ StrTruthy(Parsed[frame].cmd)
    /\ Parsed[frame].cmd = command

Dispatched(frame, q_num) ==
    /\ Commit(Dispatch(frame, q_num))
    /\ last' = Event("dispatch", curr, Parsed[frame].cmd, Parsed[frame].msg)
    /\ NextReader

HandleLogin(F) ==
    /\ Reading
    /\ \E frame \in F :
          /\ Received(frame, DictGet(PROTOCOL_CLIENT, <<"l", "o", "g", "i", "n">>))
          /\ Dispatched(frame, 1)

HandleLogout(F) ==
    /\ Reading
    /\ \E frame \in F :
          /\ Received(frame, DictGet(PROTOCOL_CLIENT, <<"l", "o", "g", "o", "u", "t">>))
          /\ Dispatched(frame, 1)

HandleGetScore(F) ==
    /\ Reading
    /\ \E frame \in F :
          /\ Received(frame, DictGet(PROTOCOL_CLIENT, <<"g", "e", "t", "_", "s", "c", "o", "r", "e">>))
          /\ Dispatched(frame, 1)

HandleGetHighscore(F) ==
    /\ Reading
    /\ \E frame \in F :
          /\ Received(frame, DictGet(PROTOCOL_CLIENT, <<"g", "e", "t", "_", "h", "i", "g", "h", "s", "c", "o", "r", "e">>))
          /\ Dispatched(frame, 1)

HandleGetLoggedUsers(F) ==
    /\ Reading
    /\ \E frame \in F :
          /\ Received(frame, DictGet(PROTOCOL_CLIENT, <<"g", "e", "t", "_", "l", "o", "g", "g", "e", "d", "_", "u", "s", "e", "r", "s">>))
          /\ Dispatched(frame, 1)

HandleGetQuestion(F) ==
    /\ Reading
    /\ \E frame \in F, q_num \in Range(DictKeys(questions)) :
          /\ Received(frame, DictGet(PROTOCOL_CLIENT, <<"g", "e", "t", "_", "q", "u", "e", "s", "t", "i", "o", "n">>))
          /\ Dispatched(frame, q_num)

\* no more than MaxCorrect correct answers are given in a run
HandleSendAnswer(F) ==
    /\ Reading
    /\ \E frame \in F :
          /\ Received(frame, DictGet(PROTOCOL_CLIENT, <<"s", "e", "n", "d", "_", "a", "n", "s", "w", "e", "r">>))
          /\ TotalScore(Dispatch(frame, 1).users)
                 <= TotalScore(InitUsers) + MaxCorrect * CORRECT_ANSWER_SCORE
          /\ Dispatched(frame, 1)

HandleUnknown(F) ==
    /\ Reading
    /\ \E frame \in F :
          /\ StrTruthy(Parsed[frame].cmd)
          /\ Parsed[frame].cmd \notin Range(DictValues(PROTOCOL_CLIENT))
          /\ Dispatched(frame, 1)

(***************************************************************************)
(* main: the write pass that ends an iteration                             *)
(***************************************************************************)
SendMessages ==
    /\ Running
    /\ pc = "loop"
    /\ ready_to_read = <<>>
    /\ \E fails \in SUBSET (1..Len(messages_to_send)) :
          \E lost \in SUBSET fails :
             LET r == send_messages_to_ready_sockets(ready_to_write, fails, lost,
                                                     Current)
             IN  /\ Commit(r.st)
                 /\ wire' = r.wire
    /\ pc' = "select"
    /\ ready_to_read' = <<>>
    /\ ready_to_write' = {}
    /\ last' = Event("send", LISTENER, <<>>, <<>>)
    /\ UNCHANGED <<questions, peername, accepted, call>>

(***************************************************************************)
(* Spec: every request, a queue of at most MaxQueue entries                *)
(***************************************************************************)
Next ==
    \/ SelectClients(MaxQueue)
    \/ AcceptNewClient
    \/ RecvError
    \/ RecvUndecodable
    \/ RecvNoMessage(Frames)
    \/ HandleLogin(Frames)
    \/ HandleLogout(Frames)
    \/ HandleGetScore(Frames)
    \/ HandleGetHighscore(Frames)
    \/ HandleGetLoggedUsers(Frames)
    \/ HandleGetQuestion(Frames)
    \/ HandleSendAnswer(Frames)
    \/ HandleUnknown(Frames)
    \/ SendMessages

Spec == Init /\ [][Next]_vars

(***************************************************************************)
(* BacklogSpec: a longer queue, MaxBacklog entries, built from the         *)
(* requests that need no payload                                           *)
(***************************************************************************)
NextBacklog ==
    \/ SelectClients(MaxBacklog)
    \/ AcceptNewClient
    \/ RecvError
    \/ RecvNoMessage(BacklogFrames)
    \/ HandleLogin(BacklogFrames)
    \/ HandleLogout(BacklogFrames)
    \/ HandleGetScore(BacklogFrames)
    \/ SendMessages

BacklogSpec == Init /\ [][NextBacklog]_vars

\* main never stops looping: a step that can be taken is taken
FairBacklogSpec == BacklogSpec /\ WF_vars(NextBacklog)

(***************************************************************************)
(* ScoreSpec: logins, logouts and answers only, with up to MaxScored       *)
(* correct answers in a run                                                *)
(***************************************************************************)
ScoreFrames ==
    { _build_message(r.cmd, r.data) : r \in
        { [cmd |-> <<"L", "O", "G", "I", "N">>, data |-> <<"t", "e", "s", "t", "#", "t", "e", "s", "t">>],
          [cmd |-> <<"L", "O", "G", "I", "N">>, data |-> <<"l", "o", "o", "s", "e", "r", "#", "1", "2", "3", "4", "5">>],
          [cmd |-> <<"L", "O", "G", "O", "U", "T">>, data |-> <<>>],
          [cmd |-> <<"S", "E", "N", "D", "_", "A", "N", "S", "W", "E", "R">>, data |-> <<"1", "#", "2">>],
          [cmd |-> <<"S", "E", "N", "D", "_", "A", "N", "S", "W", "E", "R">>, data |-> <<"1", "#", "3">>] } }

HandleSendAnswerScored(F) ==
    /\ Reading
    /\ \E frame \in F :
          /\ Received(frame, DictGet(PROTOCOL_CLIENT, <<"s", "e", "n", "d", "_", "a", "n", "s", "w", "e", "r">>))
          /\ TotalScore(Dispatch(frame, 1).users)
                 <= TotalScore(InitUsers) + MaxScored * CORRECT_ANSWER_SCORE
          /\ Dispatched(frame, 1)

NextScore ==
    \/ SelectClients(MaxQueue)
    \/ AcceptNewClient
    \/ RecvError
    \/ HandleLogin(ScoreFrames)
    \/ HandleLogout(ScoreFrames)
    \/ HandleSendAnswerScored(ScoreFrames)
    \/ SendMessages

ScoreSpec == Init /\ [][NextScore]_vars

(***************************************************************************)
(* TwinSpec: every request, from one client: the listener is answered once *)
(***************************************************************************)
SelectOnlyClient ==
    /\ SelectClients(MaxQueue)
    /\ accepted = 0 \/ LISTENER \notin Range(ready_to_read')

AcceptOnlyClient ==
    /\ accepted = 0
    /\ AcceptNewClient

NextTwin ==
    \/ SelectOnlyClient
    \/ AcceptOnlyClient
    \/ RecvError
    \/ RecvUndecodable
    \/ RecvNoMessage(Frames)
    \/ HandleLogin(Frames)
    \/ HandleLogout(Frames)
    \/ HandleGetScore(Frames)
    \/ HandleGetHighscore(Frames)
    \/ HandleGetLoggedUsers(Frames)
    \/ HandleGetQuestion(Frames)
    \/ HandleSendAnswer(Frames)
    \/ HandleUnknown(Frames)
    \/ SendMessages

TwinSpec == Init /\ [][NextTwin]_vars

(***************************************************************************)
(* CodecSpec: the chatlib functions on their own.  The initial states are  *)
(* the arguments; each action applies one function to them, or to what the *)
(* function before it returned.                                            *)
(***************************************************************************)
Repeat(c, n) == [i \in 1..n |-> c]

\* cmd arguments of _build_message: up to, at and over the field width,
\* blank-padded, and with the field delimiter inside
CodecCommands ==
    { <<>>, <<"L", "O", "G", "I", "N">>, <<"G", "E", "T", "_", "Q", "U", "E", "S", "T", "I", "O", "N">>, <<" ", "L", "O", "G", "I", "N", " ">>, <<"A", " ", "B">>, <<"A", "|", "B">>,
      Repeat("C", CMD_FIELD_MAX_LENGTH - 1), Repeat("C", CMD_FIELD_MAX_LENGTH),
      Repeat("C", CMD_FIELD_MAX_LENGTH + 1) }

\* msg arguments of _build_message: short ones, and the lengths around the
\* largest the length field can hold
CodecPayloads ==
    { <<>>, <<"a">>, <<"t", "e", "s", "t", "#", "t", "e", "s", "t">>, <<"1", "#", "2">>, <<"a", "|", "b">>, <<" ", "0", "1", "2", "3", "4", "5", "6", "7", "8", "9", " ">>,
      Repeat("a", DATA_FIELD_MAX_LENGTH - 1), Repeat("a", DATA_FIELD_MAX_LENGTH),
      Repeat("a", DATA_FIELD_MAX_LENGTH + 1) }

\* a message of which a read may deliver only the beginning
CutFrame == _build_message(<<"L", "O", "G", "I", "N">>, <<"t", "e", "s", "t", "#", "t", "e", "s", "t">>)

\* msg arguments of _parse_message that no _build_message call returned,
\* among them every beginning of CutFrame
CodecFrames ==
    { <<>>, <<"L", "O", "G", "I", "N">>,
      <<"L", "O", "G", "I", "N", " ", " ", " ", " ", " ", " ", " ", " ", " ", " ", " ", "|", "0", "0", "0", "4">>,
      <<"L", "O", "G", "I", "N", " ", " ", " ", " ", " ", " ", " ", " ", " ", " ", " ", "|", "0", "0", "0", "3", "|", "a", "|", "b">>,
      <<"L", "O", "G", "I", "N", " ", " ", " ", " ", " ", " ", " ", " ", " ", " ", "|", "0", "0", "0", "4", "|", "t", "e", "s", "t">>,
      <<"L", "O", "G", "I", "N", " ", " ", " ", " ", " ", " ", " ", " ", " ", " ", " ", " ", "|", "0", "0", "0", "4", "|", "t", "e", "s", "t">>,
      <<"L", "O", "G", "I", "N", " ", " ", " ", " ", " ", " ", " ", " ", " ", " ", " ", "|", "a", "b", "c", "d", "|", "t", "e", "s", "t">>,
      <<"L", "O", "G", "I", "N", " ", " ", " ", " ", " ", " ", " ", " ", " ", " ", " ", "|", "|", "t", "e", "s", "t">>,
      <<"L", "O", "G", "I", "N", " ", " ", " ", " ", " ", " ", " ", " ", " ", " ", " ", "|", "-", "0", "0", "4", "|", "t", "e", "s", "t">>,
      <<"L", "O", "G", "I", "N", " ", " ", " ", " ", " ", " ", " ", " ", " ", " ", " ", "|", "0", "0", "0", "5", "|", "t", "e", "s", "t">>,
      <<"L", "O", "G", "I", "N", " ", " ", " ", " ", " ", " ", " ", " ", " ", " ", " ", "|", "0", "0", "0", "3", "|", "t", "e", "s", "t">>,
      <<"L", "O", "G", "I", "N", " ", " ", " ", " ", " ", " ", " ", " ", " ", " ", " ", "|", "0", "0", "0", "4", "|", "t", "e", "s", "t">>,
      <<"L", "O", "G", "I", "N", " ", " ", " ", " ", " ", " ", " ", " ", " ", " ", " ", "|", "4", "|", "t", "e", "s", "t">>,
      <<"L", "O", "G", "I", "N", " ", " ", " ", " ", " ", " ", " ", " ", " ", " ", " ", "|", "+", "0", "0", "4", "|", "t", "e", "s", "t">>,
      <<"L", "O", "G", "I", "N", " ", " ", " ", " ", " ", " ", " ", " ", " ", " ", " ", "|", " ", "4", " ", " ", "|", "t", "e", "s", "t">>,
      <<"L", "O", "G", "I", "N", " ", " ", " ", " ", " ", " ", " ", " ", " ", " ", " ", "|", "0", "_", "0", "4", "|", "t", "e", "s", "t">>,
      <<"L", "O", "G", "I", "N", " ", " ", " ", " ", " ", " ", " ", " ", " ", " ", " ", "|", "4", ".", "0", "|", "t", "e", "s", "t">>,
      <<"L", "O", "G", "I", "N", " ", " ", " ", " ", " ", " ", " ", " ", " ", " ", " ", "|", "-", "0", "0", "0", "|">>,
      <<" ", " ", " ", " ", " ", " ", " ", " ", " ", " ", " ", "L", "O", "G", "I", "N", "|", "0", "0", "0", "4", "|", "t", "e", "s", "t">>,
      Repeat(" ", CMD_FIELD_LENGTH) \o <<"|", "0", "0", "0", "0", "|">>,
      <<"L", "O", "G", "I", "N", " ", " ", " ", " ", " ", " ", " ", " ", " ", " ", " ", "|", "9", "9", "9", "9", "|">> \o Repeat("a", DATA_FIELD_MAX_LENGTH),
      <<"L", "O", "G", "I", "N", " ", " ", " ", " ", " ", " ", " ", " ", " ", " ", " ", "|", "1", "0", "0", "0", "0", "|">> \o Repeat("a", DATA_FIELD_MAX_LENGTH + 1) }
        \cup { SubSeq(CutFrame, 1, n) : n \in 0..(Len(CutFrame) - 1) }

\* the words _join_data is given
CodecTokens == { <<>>, <<"a">>, <<"b", "#", "c">> }

CodecWords ==
    UNION { [1..n -> CodecTokens] : n \in 0..MaxWords }

\* data arguments of _split_data
CodecData ==
    { <<>>, <<"a">>, <<"#">>, <<"a", "#", "b">>, <<"a", "#", "b", "#", "c">>, <<"a", "#", "#", "c">>, <<"#", "a", "#">>, <<"a", "|", "b", "#", "c">> }

MessageInputs ==
    { [fn |-> "", kind |-> "message", args |-> <<cmd, msg>>, ret |-> <<>>] :
        cmd \in CodecCommands, msg \in CodecPayloads }

FrameInputs ==
    { [fn |-> "", kind |-> "frame", args |-> <<msg>>, ret |-> <<>>] :
        msg \in CodecFrames }

WordsInputs ==
    { [fn |-> "", kind |-> "words", args |-> <<words>>, ret |-> <<>>] :
        words \in CodecWords }

DataInputs ==
    { [fn |-> "", kind |-> "data", args |-> <<data, expected_fields>>,
       ret |-> <<>>] :
        data \in CodecData, expected_fields \in 0..MaxFields }

CodecInit ==
    /\ ServerInit
    /\ \/ call \in MessageInputs
       \/ call \in FrameInputs
       \/ call \in WordsInputs
       \/ call \in DataInputs

ServerIdle ==
    UNCHANGED <<users, questions, logged_users, messages_to_send, clients, closed,
                peername, accepted, pc, ready_to_read, ready_to_write, wire, last,
                raised>>

\* _build_message(cmd, msg)
BuildMessage ==
    /\ call.kind = "message"
    /\ call.fn = ""
    /\ call' = [call EXCEPT !.fn = "_build_message",
                            !.ret = _build_message(call.args[1], call.args[2])]
    /\ ServerIdle

\* _parse_message(msg), of a message _build_message returned or of a buffer
ParseMessage ==
    /\ \/ /\ call.kind = "message"
          /\ call.fn = "_build_message"
          /\ call.ret # CHATLIB_ERROR_RETURN
          /\ call' = [call EXCEPT !.fn = "_parse_message",
                                  !.ret = _parse_message(call.ret)]
       \/ /\ call.kind = "frame"
          /\ call.fn = ""
          /\ call' = [call EXCEPT !.fn = "_parse_message",
                                  !.ret = _parse_message(call.args[1])]
    /\ ServerIdle

\* _join_data(words)
JoinData ==
    /\ call.kind = "words"
    /\ call.fn = ""
    /\ call' = [call EXCEPT !.fn = "_join_data", !.ret = _join_data(call.args[1])]
    /\ ServerIdle

\* _split_data(data, expected_fields), of what _join_data returned with the
\* number of words joined, or of the arguments given
SplitData ==
    /\ \/ /\ call.kind = "words"
          /\ call.fn = "_join_data"
          /\ call' = [call EXCEPT !.fn = "_split_data",
                                  !.ret = _split_data(call.ret, Len(call.args[1]))]
       \/ /\ call.kind = "data"
          /\ call.fn = ""
          /\ call' = [call EXCEPT !.fn = "_split_data",
                                  !.ret = _split_data(call.args[1], call.args[2])]
    /\ ServerIdle

NextCodec ==
    \/ BuildMessage
    \/ ParseMessage
    \/ JoinData
    \/ SplitData

CodecSpec == CodecInit /\ [][NextCodec]_vars
(***************************************************************************)
(* Vocabulary of the properties                                            *)
(***************************************************************************)
LOGIN == DictGet(PROTOCOL_CLIENT, <<"l", "o", "g", "i", "n">>)

LOGOUT == DictGet(PROTOCOL_CLIENT, <<"l", "o", "g", "o", "u", "t">>)

SEND_ANSWER == DictGet(PROTOCOL_CLIENT, <<"s", "e", "n", "d", "_", "a", "n", "s", "w", "e", "r">>)

ReplyCommands == Range(DictValues(PROTOCOL_SERVER_OK)) \cup {PROTOCOL_SERVER_ERROR}

\* the step taken dispatched a decoded message
DispatchStep == last'.op = "dispatch"

\* the step appended exactly one entry, addressed to the sender, which
\* decodes to the given command and payload
Replied(cmd, data) ==
    /\ Len(messages_to_send') = Len(messages_to_send) + 1
    /\ SubSeq(messages_to_send', 1, Len(messages_to_send)) = messages_to_send
    /\ messages_to_send'[Len(messages_to_send')].client = last'.client
    /\ _parse_message(messages_to_send'[Len(messages_to_send')].msg)
           = [cmd |-> cmd, msg |-> data]

\* the latest entry of the queue is a reply to the sender of the latest
\* message, with the given command
LastReplyIs(cmd) ==
    /\ messages_to_send # <<>>
    /\ messages_to_send[Len(messages_to_send)].client = last.client
    /\ _parse_message(messages_to_send[Len(messages_to_send)].msg).cmd = cmd

HasSession(client) == DictHas(logged_users, peername[client])

LoginTokens(data) == StrSplit(data, "#")

WellFormedLogin(data) == Len(LoginTokens(data)) = 2

ValidLogin(data) ==
    /\ WellFormedLogin(data)
    /\ DictHas(users, LoginTokens(data)[1])
    /\ DictGet(users, LoginTokens(data)[1]).password = LoginTokens(data)[2]

\* the reason the claim names for each cause of a rejected LOGIN
LoginErrorReason(data) ==
    IF ~WellFormedLogin(data) THEN UNKNOWN_ERROR_OCCURRED
    ELSE IF ~DictHas(users, LoginTokens(data)[1]) THEN ERROR_USERNAME_DOES_NOT_EXIST
    ELSE ERROR_PASSWORD_DOES_NOT_MATCH

AnswerTokens(data) == StrSplit(data, "#")

\* two integer tokens
WellFormedAnswer(data) ==
    /\ Len(AnswerTokens(data)) = 2
    /\ PyInt(AnswerTokens(data)[1]).ok
    /\ PyInt(AnswerTokens(data)[2]).ok

AnswerQuestion(data) == PyInt(AnswerTokens(data)[1]).val

AnswerIndex(data) == PyInt(AnswerTokens(data)[2]).val

ValidAnswer(data) ==
    /\ WellFormedAnswer(data)
    /\ DictHas(questions, AnswerQuestion(data))
    /\ AnswerIndex(data) \in 1..4

\* the application-level failures: a LOGIN that is rejected, an answer to an
\* unknown question or with an index outside 1..4, an unknown command
ApplicationFailure(cmd, data) ==
    \/ cmd = LOGIN /\ ~ValidLogin(data)
    \/ cmd = SEND_ANSWER /\ WellFormedAnswer(data) /\ ~ValidAnswer(data)
    \/ cmd \notin Range(DictValues(PROTOCOL_CLIENT))

\* the messages of a list of entries that are addressed to one client
MessagesFor(entries, client) ==
    LET own == SelectSeq(entries, LAMBDA e : e.client = client)
    IN  [i \in 1..Len(own) |-> own[i].msg]

(***************************************************************************)
(* C1: no session entry and no queued outbound entry belongs to a client   *)
(* that is not in the live-client set.                                     *)
(***************************************************************************)
TeardownLeavesNothing ==
    /\ \A i \in 1..Len(messages_to_send) : InList(clients, messages_to_send[i].client)
    /\ \A i \in 1..Len(logged_users) :
          \E s \in Range(clients) : peername[s] = logged_users[i].k

(***************************************************************************)
(* C2: in every write pass, what is sent to a client followed by what      *)
(* stays queued for it is what was queued for it, in the same order: a     *)
(* client's entries leave in the order they were enqueued.                 *)
(***************************************************************************)
SentInEnqueueOrder ==
    [][last'.op = "send" =>
        \A c \in Sockets :
            MessagesFor(wire', c) \o MessagesFor(messages_to_send', c)
                = MessagesFor(messages_to_send, c)]_vars

(***************************************************************************)
(* C3: dispatching a decoded command appends exactly one entry, a success  *)
(* reply or an ERROR reply for the sender; LOGOUT appends none and tears   *)
(* the socket down.                                                        *)
(***************************************************************************)
DispatchEnqueuesOneReply ==
    [][DispatchStep =>
        IF last'.cmd = LOGOUT
        THEN /\ messages_to_send' = messages_to_send
             /\ ~InList(clients', last'.client)
             /\ last'.client \in closed'
        ELSE \E cmd \in ReplyCommands :
                Replied(cmd, _parse_message(
                    messages_to_send'[Len(messages_to_send')].msg).msg)]_vars

(***************************************************************************)
(* C4: after an application-level failure is dispatched the event loop     *)
(* still runs and the sender is still in the live-client set.              *)
(***************************************************************************)
ApplicationFailureNotFatal ==
    (last.op = "dispatch" /\ ApplicationFailure(last.cmd, last.data))
        => (raised = "None" /\ InList(clients, last.client))

(***************************************************************************)
(* C5: a LOGIN with correct credentials from a connection without a        *)
(* session enqueues LOGIN_OK with an empty payload for it and adds one     *)
(* session entry, its peer address mapped to the username; the other       *)
(* entries stay as they are.                                               *)
(***************************************************************************)
LoginOkCreatesOneSession ==
    [][(DispatchStep /\ last'.cmd = LOGIN /\ ValidLogin(last'.data)
            /\ ~HasSession(last'.client)) =>
        /\ Replied(<<"L", "O", "G", "I", "N", "_", "O", "K">>, <<>>)
        /\ logged_users' = Append(logged_users,
                                  [k |-> peername[last'.client],
                                   v |-> LoginTokens(last'.data)[1]])
        /\ raised' = "None"]_vars

LoginOkWitness ==
    /\ last.op = "dispatch"
    /\ last.cmd = LOGIN
    /\ raised = "None"
    /\ LastReplyIs(<<"L", "O", "G", "I", "N", "_", "O", "K">>)
    /\ HasSession(last.client)
    /\ Len(logged_users) = 2

(***************************************************************************)
(* C6: a rejected LOGIN enqueues exactly one ERROR reply for the sender,   *)
(* with the reason of its cause, and creates no session entry.             *)
(***************************************************************************)
RejectedLoginGetsError ==
    [][(DispatchStep /\ last'.cmd = LOGIN /\ ~ValidLogin(last'.data)) =>
        /\ Replied(PROTOCOL_SERVER_ERROR, LoginErrorReason(last'.data))
        /\ logged_users' = logged_users]_vars

(***************************************************************************)
(* C7: after a rejected LOGIN the connection is still live and has no      *)
(* session, and the server is there to read its next LOGIN.                *)
(***************************************************************************)
RejectedLoginKeepsConnection ==
    [][(DispatchStep /\ last'.cmd = LOGIN /\ ~ValidLogin(last'.data)
            /\ ~HasSession(last'.client)) =>
        /\ raised' = "None"
        /\ InList(clients', last'.client)
        /\ ~DictHas(logged_users', peername[last'.client])]_vars

(***************************************************************************)
(* C8: for a connection with a session, a valid SEND_ANSWER with the       *)
(* correct index adds exactly 5 to the session user's score and enqueues   *)
(* CORRECT_ANSWER with an empty payload; with another valid index it       *)
(* changes no score and enqueues WRONG_ANSWER with the correct index in    *)
(* decimal.                                                                *)
(***************************************************************************)
AnswerIsScored ==
    [][(DispatchStep /\ last'.cmd = SEND_ANSWER /\ ValidAnswer(last'.data)
            /\ HasSession(last'.client)) =>
        LET question == DictGet(questions, AnswerQuestion(last'.data))
            username == DictGet(logged_users, peername[last'.client])
        IN  IF AnswerIndex(last'.data) = question.answer
            THEN /\ Replied(<<"C", "O", "R", "R", "E", "C", "T", "_", "A", "N", "S", "W", "E", "R">>, <<>>)
                 /\ users' = [i \in 1..Len(users) |->
                                IF users[i].k = username
                                THEN [users[i] EXCEPT !.v.score = @ + 5]
                                ELSE users[i]]
            ELSE /\ Replied(<<"W", "R", "O", "N", "G", "_", "A", "N", "S", "W", "E", "R">>, <<Digits[question.answer + 1]>>)
                 /\ users' = users]_vars

CorrectAnswerWitness ==
    /\ last.op = "dispatch"
    /\ last.cmd = SEND_ANSWER
    /\ raised = "None"
    /\ LastReplyIs(<<"C", "O", "R", "R", "E", "C", "T", "_", "A", "N", "S", "W", "E", "R">>)
    /\ TotalScore(users) = TotalScore(InitUsers) + 5

(***************************************************************************)
(* C9: a SEND_ANSWER that is not two integer tokens naming a question of   *)
(* the store and an index in 1..4 enqueues an ERROR reply with the         *)
(* "invalid answer" reason and changes no score.                           *)
(***************************************************************************)
InvalidAnswerGetsError ==
    [][(DispatchStep /\ last'.cmd = SEND_ANSWER /\ ~ValidAnswer(last'.data)) =>
        /\ Replied(PROTOCOL_SERVER_ERROR, ERROR_INVALID_ANSWER)
        /\ users' = users]_vars

(***************************************************************************)
(* C10: a decoded message whose command is none of the seven client        *)
(* commands gets the generic ERROR reply enqueued for its sender, and      *)
(* changes neither the session table nor any score.                        *)
(***************************************************************************)
UnknownCommandGetsError ==
    [][(DispatchStep /\ last'.cmd \notin Range(DictValues(PROTOCOL_CLIENT))) =>
        /\ Replied(PROTOCOL_SERVER_ERROR, UNKNOWN_ERROR_OCCURRED)
        /\ logged_users' = logged_users
        /\ users' = users]_vars

(***************************************************************************)
(* Vocabulary of C11 to C15                                                *)
(***************************************************************************)
\* the commands that require the Authenticated state
AuthenticatedCommands ==
    { DictGet(PROTOCOL_CLIENT, <<"g", "e", "t", "_", "s", "c", "o", "r", "e">>),
      DictGet(PROTOCOL_CLIENT, <<"g", "e", "t", "_", "h", "i", "g", "h", "s", "c", "o", "r", "e">>),
      DictGet(PROTOCOL_CLIENT, <<"g", "e", "t", "_", "l", "o", "g", "g", "e", "d", "_", "u", "s", "e", "r", "s">>),
      DictGet(PROTOCOL_CLIENT, <<"g", "e", "t", "_", "q", "u", "e", "s", "t", "i", "o", "n">>),
      DictGet(PROTOCOL_CLIENT, <<"s", "e", "n", "d", "_", "a", "n", "s", "w", "e", "r">>) }

\* the success replies to them
SuccessReplies ==
    { <<"Y", "O", "U", "R", "_", "S", "C", "O", "R", "E">>, <<"A", "L", "L", "_", "S", "C", "O", "R", "E">>, <<"L", "O", "G", "G", "E", "D", "_", "A", "N", "S", "W", "E", "R">>, <<"Y", "O", "U", "R", "_", "Q", "U", "E", "S", "T", "I", "O", "N">>,
      <<"C", "O", "R", "R", "E", "C", "T", "_", "A", "N", "S", "W", "E", "R">>, <<"W", "R", "O", "N", "G", "_", "A", "N", "S", "W", "E", "R">> }

\* the entries the step appended to the queue
Enqueued ==
    SubSeq(messages_to_send', Len(messages_to_send) + 1, Len(messages_to_send'))

\* the step enqueued, for the sender, a reply with one of the commands
EnqueuedReply(cmds) ==
    \E i \in 1..Len(Enqueued) :
        /\ Enqueued[i].client = last'.client
        /\ _parse_message(Enqueued[i].msg).cmd \in cmds

(***************************************************************************)
(* C11: dispatching MY_SCORE, HIGHSCORE, LOGGED, GET_QUESTION or           *)
(* SEND_ANSWER for a connection that has no session entry enqueues no      *)
(* success reply for it.                                                   *)
(***************************************************************************)
UnauthenticatedGetsNoSuccessReply ==
    [][(DispatchStep /\ last'.cmd \in AuthenticatedCommands
            /\ ~HasSession(last'.client)) =>
        ~EnqueuedReply(SuccessReplies)]_vars

(***************************************************************************)
(* C12: the session table holds each client identity at most once and      *)
(* each username at most once.                                             *)
(***************************************************************************)
SessionTableOneToOne ==
    \A i, j \in 1..Len(logged_users) :
        i # j => /\ logged_users[i].k # logged_users[j].k
                 /\ logged_users[i].v # logged_users[j].v

(***************************************************************************)
(* C13: a LOGIN dispatched for a connection that already has a session     *)
(* leaves the session table as it is and enqueues no LOGIN_OK.             *)
(***************************************************************************)
SecondLoginFails ==
    [][(DispatchStep /\ last'.cmd = LOGIN /\ HasSession(last'.client)) =>
        /\ logged_users' = logged_users
        /\ ~EnqueuedReply({<<"L", "O", "G", "I", "N", "_", "O", "K">>})]_vars

\* the steps of main that read from a client socket
ReadOps == {"recv_error", "recv_undecodable", "no_message", "dispatch"}

\* the socket was closed and is out of the live-client set
Gone(c) == c \in closed /\ ~InList(clients, c)

\* the same of the state the step leads to
GoneAfter(c) == c \in closed' /\ ~InList(clients', c)

(***************************************************************************)
(* C14: a LOGOUT dispatched for a connection with a session removes its    *)
(* session entry, closes its socket and takes it out of the live-client    *)
(* set in that step, and enqueues nothing; a socket that is closed and out *)
(* of the live-client set stays so, is never again reported readable, read *)
(* from or dispatched for, and gets no further entry in the queue.         *)
(***************************************************************************)
LogoutIsTerminal ==
    [][/\ (DispatchStep /\ last'.cmd = LOGOUT /\ HasSession(last'.client)) =>
            /\ logged_users' = SelectSeq(logged_users,
                                   LAMBDA e : e.k # peername[last'.client])
            /\ GoneAfter(last'.client)
            /\ messages_to_send' = messages_to_send
            /\ raised' = "None"
       /\ \A c \in Sockets : Gone(c) =>
            /\ GoneAfter(c)
            /\ c \notin Range(ready_to_read')
            /\ ~(last'.client = c /\ last'.op \in ReadOps)
            /\ Len(MessagesFor(messages_to_send', c))
                   <= Len(MessagesFor(messages_to_send, c))]_vars

\* a connection has logged out while a reply to it was still queued, and
\* the other connection is still served
LogoutWitness ==
    /\ last.op = "dispatch"
    /\ last.cmd = LOGOUT
    /\ raised = "None"
    /\ Gone(last.client)
    /\ MessagesFor(messages_to_send, last.client) # <<>>
    /\ logged_users # <<>>

\* nothing of the connection is left: live-client set, session table, queue,
\* and the socket is closed
TornDown(c) ==
    /\ ~InList(clients, c)
    /\ ~DictHas(logged_users, peername[c])
    /\ MessagesFor(messages_to_send, c) = <<>>
    /\ c \in closed

\* the same of the state the step leads to
TornDownAfter(c) ==
    /\ ~InList(clients', c)
    /\ ~DictHas(logged_users', peername[c])
    /\ MessagesFor(messages_to_send', c) = <<>>
    /\ c \in closed'

\* the sockets whose send() failed in the write pass
FailedSends(log) == { log[i].client : i \in { j \in 1..Len(log) : ~log[j].sent } }

(***************************************************************************)
(* C15: a failed read (recv raising, or a zero-length read) and a failed   *)
(* write end in the teardown of that connection and of no other, and the   *)
(* event loop goes on.                                                     *)
(***************************************************************************)
TransportFailureTearsDown ==
    [][/\ (\/ last'.op = "recv_error"
           \/ last'.op = "no_message" /\ last'.data = <<>>) =>
            /\ raised' = "None"
            /\ TornDownAfter(last'.client)
            /\ Range(clients') = Range(clients) \ {last'.client}
       /\ last'.op = "send" =>
            /\ raised' = "None"
            /\ \A c \in FailedSends(wire') : TornDownAfter(c)
            /\ Range(clients') = Range(clients) \ FailedSends(wire')]_vars

\* the half of C15 that is about the process: neither failure leaves main
TransportFailureStaysInLoop ==
    last.op \in {"recv_error", "no_message", "send"} => raised = "None"

(***************************************************************************)
(* Vocabulary of C16 to C19                                                *)
(***************************************************************************)
\* the no-message pair (None, None)
NoMessage == [cmd |-> CHATLIB_ERROR_RETURN, msg |-> CHATLIB_ERROR_RETURN]

\* where a character occurs in a string
Occurrences(s, c) == { i \in 1..Len(s) : s[i] = c }

\* the parts of a string that has exactly two '|'
FirstBar(s) == CHOOSE i \in Occurrences(s, "|") : \A j \in Occurrences(s, "|") : i <= j

LastBar(s) == CHOOSE i \in Occurrences(s, "|") : \A j \in Occurrences(s, "|") : j <= i

CommandPart(s) == SubSeq(s, 1, FirstBar(s) - 1)

LengthPart(s) == SubSeq(s, FirstBar(s) + 1, LastBar(s) - 1)

PayloadPart(s) == SubSeq(s, LastBar(s) + 1, Len(s))

\* the string reads as a non-negative integer below the maximum payload
\* length
IsPayloadLength(s) == PyInt(s).ok /\ PyInt(s).val >= 0 /\ PyInt(s).val < 9999

\* the four causes for which decode gives no message
Malformed(s) ==
    \/ Cardinality(Occurrences(s, "|")) # 2
    \/ Len(CommandPart(s)) # 16
    \/ ~IsPayloadLength(LengthPart(s))
    \/ PyInt(LengthPart(s)).val # Len(PayloadPart(s))

\* the '#'-separated tokens of a string: what lies between one '#', or the
\* start, and the next '#', or the end
TokensOf(s) ==
    LET cuts == Occurrences(s, "#") \cup {0, Len(s) + 1}
        Cut(k) == CHOOSE p \in cuts : Cardinality({q \in cuts : q < p}) = k
    IN  [k \in 1..(Cardinality(cuts) - 1) |-> SubSeq(s, Cut(k - 1) + 1, Cut(k) - 1)]

(***************************************************************************)
(* C16: for a command of at most 16 characters and a payload of at most    *)
(* 9999, neither holding a '|', decoding the encoded message gives the     *)
(* command without its surrounding blanks and the payload.                 *)
(***************************************************************************)
CodecRoundTrip ==
    (/\ call.kind = "message"
     /\ call.fn \in {"_build_message", "_parse_message"}
     /\ Len(call.args[1]) <= 16
     /\ Len(call.args[2]) <= 9999
     /\ Occurrences(call.args[1], "|") = {}
     /\ Occurrences(call.args[2], "|") = {})
        => /\ call.fn = "_build_message" => call.ret # CHATLIB_ERROR_RETURN
           /\ call.fn = "_parse_message" =>
                  call.ret = [cmd |-> StrStrip(call.args[1]), msg |-> call.args[2]]

(***************************************************************************)
(* C17: decoding a string that has other than two '|', or a command part   *)
(* that is not 16 characters long, or a length part that is not a          *)
(* non-negative integer below 9999, or a declared length other than the    *)
(* length of its payload, gives the no-message pair.                       *)
(***************************************************************************)
MalformedFrameGivesNoMessage ==
    (call.kind = "frame" /\ call.fn = "_parse_message" /\ Malformed(call.args[1]))
        => call.ret = NoMessage

\* a buffer that is well framed but for its declared length was decoded
DeclaredLengthWitness ==
    /\ call.kind = "frame"
    /\ call.fn = "_parse_message"
    /\ Cardinality(Occurrences(call.args[1], "|")) = 2
    /\ Len(CommandPart(call.args[1])) = 16
    /\ IsPayloadLength(LengthPart(call.args[1]))
    /\ PyInt(LengthPart(call.args[1])).val > Len(PayloadPart(call.args[1]))
    /\ call.ret = NoMessage

(***************************************************************************)
(* C18: encode fails exactly for a command longer than 16 or a payload     *)
(* longer than 9999; otherwise the message is the command, blanks up to    *)
(* column 16, '|', the payload length in 4 decimal digits, '|' and the     *)
(* payload: 22 characters and the payload.                                 *)
(***************************************************************************)
BuiltMessageLayout ==
    (call.kind = "message" /\ call.fn = "_build_message") =>
        LET cmd == call.args[1]
            msg == call.args[2]
            out == call.ret
        IN  IF Len(cmd) > 16 \/ Len(msg) > 9999
            THEN out = CHATLIB_ERROR_RETURN
            ELSE /\ out # CHATLIB_ERROR_RETURN
                 /\ Len(out) = 22 + Len(msg)
                 /\ \A i \in 1..16 : out[i] = IF i <= Len(cmd) THEN cmd[i] ELSE " "
                 /\ out[17] = "|"
                 /\ \A i \in 18..21 : IsDigit(out[i])
                 /\ 1000 * DigitVal(out[18]) + 100 * DigitVal(out[19])
                        + 10 * DigitVal(out[20]) + DigitVal(out[21]) = Len(msg)
                 /\ out[22] = "|"
                 /\ \A i \in 1..Len(msg) : out[22 + i] = msg[i]

\* the longest payload encode accepts was encoded, under a padded command
LongestPayloadWitness ==
    /\ call.kind = "message"
    /\ call.fn = "_build_message"
    /\ Len(call.args[1]) \in 1..15
    /\ Len(call.args[2]) = 9999
    /\ call.ret # CHATLIB_ERROR_RETURN

\* split_fields(data, n) is the tokens of data when there are n of them and
\* failure otherwise
SplitIsExact ==
    (call.kind = "data" /\ call.fn = "_split_data") =>
        call.ret = IF Len(TokensOf(call.args[1])) = call.args[2]
                   THEN TokensOf(call.args[1])
                   ELSE CHATLIB_ERROR_LIST

\* the words hold no '#'
PlainWords(xs) == \A i \in 1..Len(xs) : Occurrences(xs[i], "#") = {}

(***************************************************************************)
(* C19: split_fields(data, n) is the list of the '#'-separated tokens of   *)
(* data when data has n tokens and failure otherwise; and for every list   *)
(* xs of tokens without '#', split_fields(join_fields(xs), len(xs)) is xs. *)
(***************************************************************************)
SplitInvertsJoin ==
    /\ SplitIsExact
    /\ (call.kind = "words" /\ call.fn = "_split_data" /\ PlainWords(call.args[1]))
           => call.ret = call.args[1]

(***************************************************************************)
(* C19 as amended: the same, for every list xs with at least one token.    *)
(***************************************************************************)
SplitInvertsNonEmptyJoin ==
    /\ SplitIsExact
    /\ (call.kind = "words" /\ call.fn = "_split_data" /\ PlainWords(call.args[1])
            /\ call.args[1] # <<>>)
           => call.ret = call.args[1]

\* three words, one of them empty, were joined and split again
SplitJoinWitness ==
    /\ call.kind = "words"
    /\ call.fn = "_split_data"
    /\ Len(call.args[1]) = 3
    /\ PlainWords(call.args[1])
    /\ \E i \in 1..3 : call.args[1][i] = <<>>
    /\ call.ret = call.args[1]

(***************************************************************************)
(* Vocabulary of C20                                                       *)
(***************************************************************************)
HIGHSCORE == DictGet(PROTOCOL_CLIENT, <<"g", "e", "t", "_", "h", "i", "g", "h", "s", "c", "o", "r", "e">>)

\* how many users of the store come before user i in the table: those with
\* a greater score, and those with the same score inserted earlier
UsersAhead(us, i) ==
    Cardinality({ j \in 1..Len(us) : us[j].v.score > us[i].v.score })
        + Cardinality({ j \in 1..(i - 1) : us[j].v.score = us[i].v.score })

\* the table the claim describes: the first min(3, number of users) users
\* in that order, one "name: score" line each
ExpectedHighscore(us) ==
    LET size == IF Len(us) < 3 THEN Len(us) ELSE 3
        At(k) == CHOOSE i \in 1..Len(us) : UsersAhead(us, i) = k - 1
    IN  StrJoin(<<"\n">>,
                [k \in 1..size |->
                    us[At(k)].v.name \o <<":", " ">> \o PyStr(us[At(k)].v.score)])

(***************************************************************************)
(* C20: HIGHSCORE is answered by ALL_SCORE listing the min(3, number of    *)
(* users) users with the greatest scores, greatest first, equal scores in  *)
(* the insertion order of the user store; with the scores 0, 300, 295, 0   *)
(* of the initial store these are the 300, the 295 and the first 0.        *)
(***************************************************************************)
HighscoreListsTopThree ==
    [][(DispatchStep /\ last'.cmd = HIGHSCORE) =>
        /\ Replied(<<"A", "L", "L", "_", "S", "C", "O", "R", "E">>, ExpectedHighscore(users))
        /\ users = InitUsers =>
              Replied(<<"A", "L", "L", "_", "S", "C", "O", "R", "E">>, <<"m", "a", "s", "t", "e", "r", ":", " ", "3", "0", "0", "\n", "w", "a", "n", "n", "a", "b", "e", " ", "m", "a", "s", "t", "e", "r", ":", " ", "2", "9", "5", "\n", "t", "e", "s", "t", ":", " ", "0">>)
        /\ users' = users]_vars

\* the table was asked for after the user inserted last had scored, which
\* puts it ahead of the user inserted first
HighscoreWitness ==
    /\ last.op = "dispatch"
    /\ last.cmd = HIGHSCORE
    /\ raised = "None"
    /\ LastReplyIs(<<"A", "L", "L", "_", "S", "C", "O", "R", "E">>)
    /\ users[Len(users)].v.score > users[1].v.score
    /\ _parse_message(messages_to_send[Len(messages_to_send)].msg).msg
           = ExpectedHighscore(users)

(***************************************************************************)
(* Vocabulary of C21 and C22                                               *)
(***************************************************************************)
GET_QUESTION == DictGet(PROTOCOL_CLIENT, <<"g", "e", "t", "_", "q", "u", "e", "s", "t", "i", "o", "n">>)

LOGGED == DictGet(PROTOCOL_CLIENT, <<"g", "e", "t", "_", "l", "o", "g", "g", "e", "d", "_", "u", "s", "e", "r", "s">>)

\* the reply the step enqueued
NewReply == _parse_message(messages_to_send'[Len(messages_to_send')].msg)

(***************************************************************************)
(* C21: GET_QUESTION is answered by YOUR_QUESTION with a payload of        *)
(* exactly 6 '#'-separated tokens: the number of a question of the store,  *)
(* its text and its options 1 to 4 in that order; no user's set of asked   *)
(* questions changes.                                                      *)
(***************************************************************************)
QuestionReplyHasSixTokens ==
    [][(DispatchStep /\ last'.cmd = GET_QUESTION) =>
        \E reply \in {NewReply} : \E tokens \in {TokensOf(reply.msg)} :
            /\ Replied(<<"Y", "O", "U", "R", "_", "Q", "U", "E", "S", "T", "I", "O", "N">>, reply.msg)
            /\ Len(tokens) = 6
            /\ \E i \in 1..Len(questions) :
                  /\ tokens[1] = PyStr(questions[i].k)
                  /\ tokens[2] = questions[i].v.question
                  /\ \A a \in 1..4 :
                        tokens[2 + a] = questions[i].v.optional_answers[a]
            /\ \A i \in 1..Len(users) :
                  users'[i].v.questions_asked = users[i].v.questions_asked]_vars

\* the last question of the store was drawn for a connection with a session
QuestionWitness ==
    /\ last.op = "dispatch"
    /\ last.cmd = GET_QUESTION
    /\ raised = "None"
    /\ HasSession(last.client)
    /\ LastReplyIs(<<"Y", "O", "U", "R", "_", "Q", "U", "E", "S", "T", "I", "O", "N">>)
    /\ TokensOf(_parse_message(messages_to_send[Len(messages_to_send)].msg).msg)[1]
           = PyStr(questions[Len(questions)].k)

\* every session entry belongs to a connection of the live-client set
SessionsAreLive ==
    \A i \in 1..Len(logged_users) :
        \E s \in Range(clients) : peername[s] = logged_users[i].k

(***************************************************************************)
(* C22: LOGGED is answered by LOGGED_ANSWER with the usernames of the      *)
(* session table joined by commas, one token per entry, and the entries    *)
(* are those of live connections: nobody who logged out or was torn down   *)
(* is listed.                                                              *)
(***************************************************************************)
LoggedListsLiveSessions ==
    [][(DispatchStep /\ last'.cmd = LOGGED) =>
        /\ Replied(<<"L", "O", "G", "G", "E", "D", "_", "A", "N", "S", "W", "E", "R">>,
                   StrJoin(<<",">>, [i \in 1..Len(logged_users) |-> logged_users[i].v]))
        /\ Cardinality(Occurrences(NewReply.msg, ",")) + 1 = Len(logged_users)
               \/ (logged_users = <<>> /\ NewReply.msg = <<>>)
        /\ SessionsAreLive]_vars

(***************************************************************************)
(* Vocabulary of C23 to C30                                                *)
(***************************************************************************)
MY_SCORE == DictGet(PROTOCOL_CLIENT, <<"g", "e", "t", "_", "s", "c", "o", "r", "e">>)

\* the queued entries a write pass finds ready, in queue order
ReadyEntries ==
    SelectSeq(messages_to_send, LAMBDA e : e.client \in ready_to_write)

\* the entries the write pass handed to send(), in the order of the calls
Attempted == [i \in 1..Len(wire') |-> [client |-> wire'[i].client, msg |-> wire'[i].msg]]

\* the number of send() calls of the write pass on one socket
AttemptsOn(c) == Cardinality({ i \in 1..Len(wire') : wire'[i].client = c })

(***************************************************************************)
(* C23: a write pass removes what it hands to send() and nothing else, so  *)
(* no entry is sent twice; and unless an exception ends main or main waits *)
(* with no client left, the entries queued for a client that is no longer  *)
(* in the live-client set leave the queue.                                 *)
(***************************************************************************)
QueuedEntriesLeave ==
    /\ [][last'.op = "send" =>
            Len(messages_to_send') + Len(wire') = Len(messages_to_send)]_vars
    /\ \A c \in Sockets :
          (MessagesFor(messages_to_send, c) # <<>> /\ ~InList(clients, c))
              ~> \/ MessagesFor(messages_to_send, c) = <<>>
                 \/ raised # "None"
                 \/ pc = "select" /\ clients = <<>>

(***************************************************************************)
(* C24: the entries a write pass sends are the first of the ready entries, *)
(* in queue order: none is left in the queue while a later one is sent.    *)
(***************************************************************************)
ArrivalOrderInPass ==
    [][last'.op = "send" =>
        Attempted = SubSeq(ReadyEntries, 1, Len(wire'))]_vars

(***************************************************************************)
(* C25: in a write pass every write-ready client with a queued entry is    *)
(* sent exactly one entry, which leaves the queue.                         *)
(***************************************************************************)
OneEntryPerReadyClient ==
    [][last'.op = "send" =>
        \A c \in ready_to_write :
            MessagesFor(messages_to_send, c) # <<>> =>
                /\ AttemptsOn(c) = 1
                /\ Len(MessagesFor(messages_to_send', c))
                       = Len(MessagesFor(messages_to_send, c)) - 1]_vars

(***************************************************************************)
(* C26: a read that yields no message (recv raising, a zero-length read,   *)
(* bytes that do not decode) tears the connection down in that step,       *)
(* leaves main running and enqueues nothing.                               *)
(***************************************************************************)
ReadFailureTearsDown ==
    [][last'.op \in {"recv_error", "recv_undecodable", "no_message"} =>
        /\ raised' = "None"
        /\ TornDownAfter(last'.client)
        /\ Enqueued = <<>>]_vars

(***************************************************************************)
(* C27: a received buffer that decodes to a command and payload is handed  *)
(* to the dispatcher: main drops only buffers that decode to the           *)
(* no-message pair.                                                        *)
(***************************************************************************)
DecodedIsDispatched ==
    [][last'.op = "no_message" => _parse_message(last'.data) = NoMessage]_vars

\* the buffer is the beginning of a request, not all of it
IsCutFrame(frame) ==
    /\ Len(frame) > 0
    /\ \E r \in Requests :
          LET whole == _build_message(r.cmd, r.data)
          IN  Len(frame) < Len(whole) /\ frame = SubSeq(whole, 1, Len(frame))

(***************************************************************************)
(* C28: a read that holds only the beginning of a frame decodes to no      *)
(* message; the connection is torn down in that step, so that the rest of  *)
(* the frame is never read and its command never dispatched.               *)
(***************************************************************************)
CutFrameIsNotReassembled ==
    [][/\ \A frame \in Frames : IsCutFrame(frame) => Parsed[frame] = NoMessage
       /\ (last'.op = "no_message" /\ IsCutFrame(last'.data)) =>
            /\ TornDownAfter(last'.client)
            /\ raised' = "None"]_vars

\* the half of C28 that is about the decoder: no beginning of a message
\* decodes to a message
CutFrameGivesNoMessage ==
    (/\ call.kind = "frame"
     /\ call.fn = "_parse_message"
     /\ Len(call.args[1]) < Len(CutFrame)
     /\ call.args[1] = SubSeq(CutFrame, 1, Len(call.args[1])))
        => call.ret = NoMessage

(***************************************************************************)
(* C29: a send() that fails leaves its entry out of the queue for good     *)
(* and tears its client down; the error stays inside the write pass, which *)
(* goes on: it does not end on the failure while an entry of another ready *)
(* client is queued.                                                       *)
(***************************************************************************)
FailedSendTearsDown ==
    [][(last'.op = "send" /\ FailedSends(wire') # {}) =>
        /\ raised' = "None"
        /\ Len(messages_to_send') + Len(wire') = Len(messages_to_send)
        /\ \A c \in FailedSends(wire') : TornDownAfter(c)
        /\ ~wire'[Len(wire')].sent =>
              \A c \in ready_to_write \ FailedSends(wire') :
                  MessagesFor(messages_to_send', c) = <<>>]_vars

(***************************************************************************)
(* C30: MY_SCORE, SEND_ANSWER and LOGOUT dispatched for a connection       *)
(* without a session entry fail an assertion before anything is enqueued   *)
(* and before the session table, the live-client set or a score changes.   *)
(***************************************************************************)
SessionHandlersAbortFirst ==
    [][(DispatchStep /\ last'.cmd \in {MY_SCORE, SEND_ANSWER, LOGOUT}
            /\ ~HasSession(last'.client)) =>
        /\ raised' = "AssertionError"
        /\ messages_to_send' = messages_to_send
        /\ logged_users' = logged_users
        /\ clients' = clients
        /\ users' = users]_vars

(***************************************************************************)
(* C31: no step changes the question store, the set of users, or a user's  *)
(* name, password or asked questions; scores are never negative and never  *)
(* decrease, and the users change only when a SEND_ANSWER with the correct *)
(* index is dispatched, which adds 5 to one score.                         *)
(***************************************************************************)
OnlyCorrectAnswersChangeTheStores ==
    [][/\ questions' = questions
       /\ DictKeys(users') = DictKeys(users)
       /\ \A i \in 1..Len(users) :
             /\ users'[i].v.name = users[i].v.name
             /\ users'[i].v.password = users[i].v.password
             /\ users'[i].v.questions_asked = users[i].v.questions_asked
             /\ users[i].v.score >= 0
             /\ users'[i].v.score >= users[i].v.score
       /\ users' # users =>
             /\ DispatchStep
             /\ last'.cmd = SEND_ANSWER
             /\ ValidAnswer(last'.data)
             /\ AnswerIndex(last'.data)
                    = DictGet(questions, AnswerQuestion(last'.data)).answer
             /\ TotalScore(users') = TotalScore(users) + CORRECT_ANSWER_SCORE]_vars

\* a correct answer was scored: one score is 5 higher than at the start and
\* nothing else of the users differs
StoresWitness ==
    /\ last.op = "dispatch"
    /\ last.cmd = SEND_ANSWER
    /\ questions = InitQuestions
    /\ \E i \in 1..Len(users) :
          users = [InitUsers EXCEPT ![i].v.score = @ + CORRECT_ANSWER_SCORE]

CORRECT_ANSWER == DictGet(PROTOCOL_SERVER_OK, <<"s", "e", "n", "d", "_", "a", "n", "s", "w", "e", "r", "_", "c", "o", "r", "r", "e", "c", "t">>)

\* the user key the session table gives for a connection
SessionUser(c) == DictGet(logged_users, peername[c])

\* the CORRECT_ANSWER replies among entries that are addressed to
\* connections whose session maps to the user key
CorrectAnswersFor(entries, key) ==
    { j \in 1..Len(entries) :
        /\ _parse_message(entries[j].msg).cmd = CORRECT_ANSWER
        /\ HasSession(entries[j].client)
        /\ SessionUser(entries[j].client) = key }

(***************************************************************************)
(* C32: whatever the connections logged in as a user send and in whatever  *)
(* order, every step adds to each user's score 5 times the number of       *)
(* CORRECT_ANSWER replies it enqueues for connections whose session maps   *)
(* to that user; so a score is always its initial value plus 5 for each    *)
(* such reply, none lost and none given to another user.                   *)
(***************************************************************************)
ScoreCountsCorrectAnswers ==
    [][\E new \in {Enqueued} :
          \A i \in 1..Len(users) :
              users'[i].v.score = users[i].v.score
                  + CORRECT_ANSWER_SCORE
                        * Cardinality(CorrectAnswersFor(new, users[i].k))]_vars

\* two connections logged in as the same user have both answered correctly,
\* in one iteration, and the user has the reward of both
ScoreWitness ==
    /\ Len(messages_to_send) = 2
    /\ messages_to_send[1].client # messages_to_send[2].client
    /\ \E i \in 1..Len(users) :
          /\ CorrectAnswersFor(messages_to_send, users[i].k) = {1, 2}
          /\ users[i].v.score = InitUsers[i].v.score + 2 * CORRECT_ANSWER_SCORE

\* select reported the client write-ready in the iteration under way
WriteReady(c) == pc = "loop" /\ c \in ready_to_write

QueuedFor(c, m) ==
    \E i \in 1..Len(messages_to_send) :
        messages_to_send[i] = [client |-> c, msg |-> m]

\* the latest write pass handed the message to send() on the client's
\* socket, which took it
SentTo(c, m) ==
    \E i \in 1..Len(wire) : wire[i] = [client |-> c, msg |-> m, sent |-> TRUE]

\* the replies to the requests of BacklogSpec
BacklogReplies ==
    { _build_message(DictGet(PROTOCOL_SERVER_OK, <<"l", "o", "g", "i", "n">>), <<>>),
      _build_message(DictGet(PROTOCOL_SERVER_OK, <<"g", "e", "t", "_", "s", "c", "o", "r", "e">>), <<"0">>) }

(***************************************************************************)
(* C33: if a client is reported write-ready in infinitely many iterations  *)
(* of main (so it stays in the live-client set), an entry queued for it is *)
(* eventually sent to it, whatever sits ahead of it in the queue.          *)
(***************************************************************************)
ReadyClientIsServed ==
    \A c \in Sockets, m \in BacklogReplies :
        ([]<>WriteReady(c)) => (QueuedFor(c, m) ~> SentTo(c, m))

\* a write pass sent a live client its entry and left, first in the queue,
\* the entry of a client that is never write-ready again
ServedPastDeadWitness ==
    /\ last.op = "send"
    /\ messages_to_send # <<>>
    /\ ~InList(clients, messages_to_send[1].client)
    /\ \E i \in 1..Len(wire) : wire[i].sent /\ InList(clients, wire[i].client)

\* how many times an entry occurs in a list of entries
EntryCount(entries, e) == Cardinality({ i \in 1..Len(entries) : entries[i] = e })

\* the send() calls of a write pass, as the entries they were made for
Entries(log) == [i \in 1..Len(log) |-> [client |-> log[i].client, msg |-> log[i].msg]]

(***************************************************************************)
(* C34: whatever the clients send and in whatever order, an entry enters   *)
(* the queue only when a command is dispatched and is addressed to the     *)
(* sender of that command; a write pass hands each entry it takes out of   *)
(* the queue to the socket the entry is addressed to, with the entry's     *)
(* message, and changes no entry that stays.                               *)
(***************************************************************************)
RepliesGoToTheirSender ==
    [][\E before \in {messages_to_send}, after \in {messages_to_send'} :
          IF last'.op = "send"
          THEN \E sends \in {Entries(wire')} :
                  \A e \in Range(before) \cup Range(after) \cup Range(sends) :
                      EntryCount(before, e)
                          = EntryCount(after, e) + EntryCount(sends, e)
          ELSE /\ Len(after) >= Len(before)
               /\ SubSeq(after, 1, Len(before)) = before
               /\ after # before => DispatchStep
               /\ \A i \in (Len(before) + 1)..Len(after) :
                      after[i].client = last'.client]_vars

\* two clients have sent commands in one iteration and each has its own
\* reply in the queue
TwoSendersWitness ==
    /\ last.op = "dispatch"
    /\ Len(messages_to_send) = 2
    /\ messages_to_send[1].client # last.client
    /\ messages_to_send[2].client = last.client
    /\ _parse_message(messages_to_send[1].msg).cmd
           # _parse_message(messages_to_send[2].msg).cmd

\* main is about to call select_clients
AtWait == raised = "None" /\ pc = "select"

(***************************************************************************)
(* C35: whenever main is about to wait for readiness, no socket of the     *)
(* live-client set has been closed: LOGOUT, the teardown after a failed    *)
(* read and the teardown after a failed send all take the socket they      *)
(* close out of the set before the next wait.                              *)
(***************************************************************************)
LiveSocketsAreOpen ==
    AtWait => \A c \in Range(clients) : c \notin closed

\* a wait with a client in the live set after another socket was closed
ClosedSocketLeftWitness ==
    /\ AtWait
    /\ last.op = "send"
    /\ closed # {}
    /\ clients # <<>>

\* the live clients terminate_client is called on in the step: the client
\* whose read failed, the clients whose send() failed
Terminated ==
    IF last'.op \in {"recv_error", "no_message"} THEN {last'.client}
    ELSE IF last'.op = "send" THEN FailedSends(wire') \cap Range(clients)
    ELSE {}

(***************************************************************************)
(* C36: terminate_client called on a client of the live-client set ends    *)
(* with the client's session entry removed and its socket closed, also     *)
(* when getpeername raises; so a connection that is accepted starts with   *)
(* no session, whatever peer address it comes from.                        *)
(***************************************************************************)
TeardownEndsSessionAndSocket ==
    [][/\ \A c \in Terminated :
             /\ ~DictHas(logged_users', peername[c])
             /\ c \in closed'
       /\ last'.op = "accept" => ~DictHas(logged_users', peername'[last'.client])]_vars

(***************************************************************************)
(* C37: for one client, each command the multiplexed server dispatches     *)
(* enqueues the reply that the blocking server, given the same command in  *)
(* the same session table and scores (and drawing the same question),      *)
(* sends, and leaves the same session table and scores; so the two agree   *)
(* command by command over any sequence of commands.                       *)
(***************************************************************************)
SameAsBlockingServer ==
    [][DispatchStep =>
        \E new \in {Enqueued} :
           \E q_num \in Range(DictKeys(questions)) :
              \E blocking \in {Blocking_handle_client_message(
                                   last'.client, last'.cmd, last'.data, q_num,
                                   BlockingCurrent)} :
                 /\ blocking.sent = [i \in 1..Len(new) |-> new[i].msg]
                 /\ blocking.logged_users = logged_users'
                 /\ blocking.users = users']_vars

(***************************************************************************)
(* C38: every buffer that _parse_message decodes to a command and a        *)
(* payload is the message _build_message makes of that command and         *)
(* payload: its command field is left-justified and its length field is 4  *)
(* zero-padded digits.                                                     *)
(***************************************************************************)
DecodedFramesAreCanonical ==
    (call.kind = "frame" /\ call.fn = "_parse_message" /\ call.ret # NoMessage)
        => _build_message(call.ret.cmd, call.ret.msg) = call.args[1]

\* the names an ALL_SCORE payload lists: what stands before ": " on each
\* of its lines
ListedNames(payload) ==
    LET lines == StrSplit(payload, "\n")
        Colon(line) == CHOOSE i \in 1..Len(line) :
                           line[i] = ":" /\ \A j \in 1..(i - 1) : line[j] # ":"
    IN  [k \in 1..Len(lines) |-> SubSeq(lines[k], 1, Colon(lines[k]) - 1)]

\* no two positions of the list hold the same value
Distinct(l) == \A i, j \in 1..Len(l) : l[i] = l[j] => i = j

(***************************************************************************)
(* C39: every user of the store is stored under its own name, so no two    *)
(* users have the same name, and whatever correct answers were given       *)
(* before, no ALL_SCORE reply to HIGHSCORE lists a name twice.             *)
(***************************************************************************)
UsersAreKeyedByName ==
    [][/\ \A i \in 1..Len(users) : users[i].k = users[i].v.name
       /\ Distinct([i \in 1..Len(users) |-> users[i].v.name])
       /\ (DispatchStep /\ last'.cmd = HIGHSCORE) =>
              \E reply \in {NewReply} : Distinct(ListedNames(reply.msg))]_vars

====
